---- MODULE Spec2Model ----
(***************************************************************************)
(* Verification model of the oracle-thin-rs wire protocol engine.          *)
(*                                                                         *)
(* SpecFramer : the packet framer PacketStream::read_packet over a TCP      *)
(*              byte stream split at arbitrary places, with connect /      *)
(*              handle_accept switching the length field, and the headers  *)
(*              the client writes.                                         *)
(* Spec       : one connection after the TNS handshake: data-type          *)
(*              exchange, O5LOGON phase one and two, then statements       *)
(*              (query, open_row_cursor, fetch) with the packet dispatcher *)
(*              Connection::read_data_response and its marker recovery.    *)
(*              The server is the environment: for each request it puts a  *)
(*              response script on the wire.                               *)
(* SpecCursor : the Cursor struct of cursor.rs under any sequence of its   *)
(*              buffer methods.                                            *)
(* SpecRowCursor : a cursor opened by open_row_cursor over a result set of *)
(*              N rows and iterated to its end, FETCH by FETCH.            *)
(***************************************************************************)
EXTENDS Integers, Sequences, FiniteSets, TLC

(* ---------------------------------------------------------------------- *)
(* Program constants (src/src/protocol/constants.rs)                       *)
(* ---------------------------------------------------------------------- *)
TNS_PACKET_TYPE_CONNECT == 1
TNS_PACKET_TYPE_ACCEPT == 2
TNS_PACKET_TYPE_REFUSE == 4
TNS_PACKET_TYPE_DATA == 6
TNS_PACKET_TYPE_RESEND == 11
TNS_PACKET_TYPE_MARKER == 12
TNS_PACKET_TYPE_CONTROL == 14

TNS_MARKER_TYPE_BREAK == 1
TNS_MARKER_TYPE_RESET == 2

TNS_MSG_TYPE_PROTOCOL == 1
TNS_MSG_TYPE_DATA_TYPES == 2
TNS_MSG_TYPE_ERROR == 4
TNS_MSG_TYPE_ROW_HEADER == 6
TNS_MSG_TYPE_ROW_DATA == 7
TNS_MSG_TYPE_PARAMETER == 8
TNS_MSG_TYPE_STATUS == 9
TNS_MSG_TYPE_DESCRIBE_INFO == 16
TNS_MSG_TYPE_BIT_VECTOR == 21
TNS_MSG_TYPE_SERVER_SIDE_PIGGYBACK == 23
TNS_MSG_TYPE_END_OF_RESPONSE == 29
TNS_VERSION_DESIRED == 319
TNS_VERSION_MIN_ACCEPTED == 315
TNS_VERSION_MIN_LARGE_SDU == 315
TNS_NSI_NA_REQUIRED == 16
\* packet.rs
HEADER_SIZE == 8
TNS_CCAP_FIELD_VERSION == 7
TNS_CCAP_MAX == 53
TNS_CCAP_SQL_VERSION_MAX == 6
TNS_RCAP_TTC == 6
TNS_RCAP_MAX == 11
TNS_RCAP_COMPAT_81 == 2
TNS_RCAP_TTC_ZERO_COPY == 1
TNS_RCAP_TTC_32K == 4
TNS_VERSION_MIN_END_OF_RESPONSE == 319
TNS_CCAP_FIELD_VERSION_19_1_EXT_1 == 13
TNS_CCAP_FIELD_VERSION_MAX == 24
TNS_SDU_DEFAULT == 8192
TNS_MAX_CONNECT_DATA == 230
TNS_VERIFIER_TYPE_11G_1 == 45394
TNS_VERIFIER_TYPE_11G_2 == 6949
TNS_VERIFIER_TYPE_12C == 18453
AES_BLOCK == 16
TNS_NULL_LENGTH_INDICATOR == 0
TNS_LONG_LENGTH_INDICATOR == 254
\* EXECUTE option bits (src/src/protocol/constants.rs)
TNS_EXEC_OPTION_PARSE == 1
TNS_EXEC_OPTION_DEFINE == 16
TNS_EXEC_OPTION_EXECUTE == 32
TNS_EXEC_OPTION_FETCH == 64
TNS_EXEC_OPTION_NOT_PLSQL == 32768
TNS_EXEC_OPTION_DESCRIBE == 131072
\* prefetch_rows of Connection::query, fetch size of Connection::open_cursor
DEFAULT_PREFETCH_ROWS == 100

\* ORA-01403 "no data found", ORA-00942 "table or view does not exist"
ORA_NO_DATA_FOUND == 1403
ORA_TABLE_NOT_FOUND == 942

\* handle_marker_and_get_error / _phase2 give up after this many reads
MAX_MARKER_ATTEMPTS == 10

(* ---------------------------------------------------------------------- *)
(* Bounds of the model                                                     *)
(* ---------------------------------------------------------------------- *)
\* statements issued on one connection
MaxOps == 2
\* CONTROL packets the server may put before a response
MaxCtrl == 1
\* BREAK markers the server may send when it interrupts a request
MaxBreak == 2
\* packets in the server's stream after ACCEPT
MaxPkts == 2
\* bytes one socket read returns at most
MaxChunk == 12
\* DATA packets the client sends after ACCEPT
MaxSends == 2
\* RESEND packets before the answer to CONNECT
MaxResend == 2
\* entries of the batch-offset array of an ERROR message
MaxOffsets == 2
\* addresses lookup_host returns
MaxAddrs == 3

VARIABLES
    pc,        \* which call the client is in: the read it is suspended at
    rd,        \* the position inside that call's read loop
    attempts,  \* loop counter of the authentication marker handlers
    wire,      \* packets server -> client, framed, not yet read
    inbox,     \* packets client -> server the server has not handled yet
    srv,       \* server: what it still owes after a BREAK
    log,       \* events of the running operation: packets sent and read
    parsed,    \* DATA packets handed to a TTC parser in the running operation
    qbuf,      \* query step 2: messages concatenated so far
    resp,      \* the last ExecuteResponse / FetchResponse a parser returned
    outcome,   \* result of the last finished operation
    prev,      \* result of the operation before it
    cursor,    \* the open RowCursor, if any
    nops,      \* statements issued so far
    nreq,      \* requests sent so far (the id of the last one)
    awaiting,  \* requests sent whose read has not returned yet
    caps,      \* Connection.caps, the Capabilities
    \* the packet framer (SpecFramer)
    phase,         \* where the client is: connect, a read_packet call, between calls
    stream,        \* the packets the server wrote, in order, with their framing
    tcp,           \* bytes of the TCP stream no socket read has returned yet
    partial_buf,   \* PacketStream.partial_buf
    use_large_sdu, \* PacketStream.use_large_sdu
    negotiated,    \* protocol version taken from ACCEPT (0: not accepted yet)
    emitted,       \* packets read_packet returned, with the length it parsed
    sent,          \* packets the client wrote, byte for byte
    connect_string, \* the connect descriptor built by build_connect_string
    \* the row cursor (SpecCursor, SpecRowCursor)
    rowcur,    \* the Cursor struct: columns, cursor_id, buffer, buffer_pos, ..
    table,     \* the server's result set and how many of its rows it has sent
    fetches,   \* the FETCH messages sent, each with what the server answered
    yielded,   \* the rows handed to the caller, in order
    ret,       \* what the last call on the cursor returned
    cpc,       \* where the cursor is in its life
    \* the FastAuth handshake (SpecFastAuth)
    fa_pc,      \* where connect_with_params is on its FastAuth branch
    fa_reply,   \* the messages the server put in its FastAuth response
    fa_rbuf,    \* ReadBuffer over the response payload, after the data flags
    fa_pos,     \* ReadBuffer.pos
    fa_session, \* SessionData being filled
    fa_err,     \* the error the branch returned
    fa_sent,    \* messages written by the branch
    fa_reply2,  \* the messages of the server's phase-two reply
    \* the TCP connect over the resolved addresses (SpecDial)
    d_pc,         \* where connect_with_params is
    d_addrs,      \* what lookup_host returned: per address, how a connect to it ends
    d_next,       \* the address the for loop is at
    d_last_error, \* last_error
    d_result,     \* what connect_with_params returned
    d_tried,      \* the addresses a TCP connect was started to, in order
    \* the wire encodings (SpecCodec)
    cx_pc,     \* nothing written yet, written, read back
    cx_in,     \* the value or byte slice given to the writer, and which writer
    cx_wire,   \* the bytes the writer produced
    cx_out     \* what the reader returned

conn == <<pc, rd, attempts, wire, inbox, srv, log, parsed, qbuf, resp, outcome, prev,
          cursor, nops, nreq, awaiting, caps>>
framer == <<phase, stream, tcp, partial_buf, use_large_sdu, negotiated, emitted, sent,
            connect_string>>
rowc == <<rowcur, table, fetches, yielded, ret, cpc>>
conn_io == <<pc, rd, attempts, wire, inbox, srv, log, parsed, qbuf, resp, outcome,
             prev, cursor, nops, nreq, awaiting>>
fauth == <<fa_pc, fa_reply, fa_rbuf, fa_pos, fa_session, fa_err, fa_sent, fa_reply2>>
dial == <<d_pc, d_addrs, d_next, d_last_error, d_result, d_tried>>
codec == <<cx_pc, cx_in, cx_wire, cx_out>>
side == <<fauth, dial, codec>>
vars == <<conn, framer, rowc, side>>

(* ---------------------------------------------------------------------- *)
(* Packets and TTC messages                                                *)
(* ---------------------------------------------------------------------- *)
\* A TTC message inside a DATA payload: its type byte and, for ERROR, the
\* trailing error number and the cursor id (ErrorInfo).
Msg(t, num, cid) == [t |-> t, num |-> num, cid |-> cid]
ErrorMsg(num, cid) == Msg(TNS_MSG_TYPE_ERROR, num, cid)
Plain(t) == Msg(t, 0, 0)

\* Packet: type, marker payload bytes, DATA payload messages, the request it
\* belongs to, the continuation flag, and (client packets) the request kind.
Pkt(ptype, bytes, msgs, req, more, kind) ==
    [ptype |-> ptype, bytes |-> bytes, msgs |-> msgs, req |-> req,
     more_data |-> more, kind |-> kind]

DataPkt(req, msgs, more) == Pkt(TNS_PACKET_TYPE_DATA, <<>>, msgs, req, more, "resp")
MarkerPkt(req, bytes) == Pkt(TNS_PACKET_TYPE_MARKER, bytes, <<>>, req, FALSE, "resp")
ControlPkt(req) == Pkt(TNS_PACKET_TYPE_CONTROL, <<>>, <<>>, req, FALSE, "resp")
OtherPkt(req) == Pkt(TNS_PACKET_TYPE_RESEND, <<>>, <<>>, req, FALSE, "resp")

Ev(ev, pkt) == [ev |-> ev, pkt |-> pkt]

(* ---------------------------------------------------------------------- *)
(* MarkerMessage (src/src/protocol/messages/connect.rs)                    *)
(* ---------------------------------------------------------------------- *)
\* MarkerMessage::write_to: two constant bytes, then the marker type
MarkerWriteTo(marker_type) == <<1, 0, marker_type>>

\* MarkerMessage::reset() sent with send_message(TNS_PACKET_TYPE_MARKER, ..)
ResetMarker(req) ==
    Pkt(TNS_PACKET_TYPE_MARKER, MarkerWriteTo(TNS_MARKER_TYPE_RESET), <<>>,
        req, FALSE, "RESET")

\* a request the client sends with send_data_message
Request(kind, req) == Pkt(TNS_PACKET_TYPE_DATA, <<>>, <<>>, req, FALSE, kind)

\* variant: the marker type is looked for in the first payload byte
IsResetMarkerFirstByte(p) ==
    Len(p.bytes) >= 1 /\ p.bytes[1] = TNS_MARKER_TYPE_RESET

\* read_data_response's test for the server's RESET marker
IsResetMarker(p) ==
    Len(p.bytes) >= 3 /\ p.bytes[3] = TNS_MARKER_TYPE_RESET

\* the authentication handlers' reading of the marker type
AuthMarkerType(p) ==
    IF Len(p.bytes) >= 3 THEN p.bytes[3]
    ELSE IF Len(p.bytes) > 0 THEN p.bytes[1]
    ELSE 0

(* ---------------------------------------------------------------------- *)
(* Capabilities (src/src/protocol/packet.rs)                               *)
(* ---------------------------------------------------------------------- *)
\* a capability array, as far as the model tells its bytes apart: its
\* length and the bytes at the indices the code reads or writes
CompileCaps(len, sql_version, field_version) ==
    [len |-> len, sql_version |-> sql_version, field_version |-> field_version]
RuntimeCaps(len, compat, ttc) == [len |-> len, compat |-> compat, ttc |-> ttc]
NoCompileCaps == CompileCaps(0, 0, 0)
NoRuntimeCaps == RuntimeCaps(0, 0, 0)

\* flags2 of the ACCEPT packet, bit by bit
Flags2(fast_auth, end_of_response) ==
    [fast_auth |-> fast_auth, end_of_response |-> end_of_response]

\* Capabilities::new
NewCapabilities ==
    [protocol_version |-> 0, sdu |-> TNS_SDU_DEFAULT, supports_oob |-> FALSE,
     supports_end_of_response |-> FALSE, supports_fast_auth |-> FALSE,
     ttc_field_version |-> TNS_CCAP_FIELD_VERSION_MAX,
     server_ttc_field_version |-> 0,
     compile_caps |-> CompileCaps(TNS_CCAP_MAX, TNS_CCAP_SQL_VERSION_MAX,
                                  TNS_CCAP_FIELD_VERSION_MAX),
     runtime_caps |-> RuntimeCaps(TNS_RCAP_MAX, TNS_RCAP_COMPAT_81,
                                  TNS_RCAP_TTC_ZERO_COPY + TNS_RCAP_TTC_32K)]

\* adjust_for_protocol: the version and flags2 of the ACCEPT packet
adjust_for_protocol(c, version, flags2) ==
    [c EXCEPT !.protocol_version = version,
              !.supports_end_of_response =
                  IF version >= TNS_VERSION_MIN_END_OF_RESPONSE
                      THEN flags2.end_of_response ELSE @,
              !.supports_fast_auth = flags2.fast_auth]

\* variant: every byte the server sent is merged by taking the minimum
adjust_for_server_caps_min_all(c, server_compile_caps, server_runtime_caps) ==
    LET cc == IF server_compile_caps.len > TNS_CCAP_FIELD_VERSION
                  THEN [c EXCEPT
                          !.server_ttc_field_version = server_compile_caps.field_version,
                          !.ttc_field_version =
                              IF server_compile_caps.field_version < @
                                  THEN server_compile_caps.field_version ELSE @,
                          !.compile_caps.field_version =
                              IF server_compile_caps.field_version < @
                                  THEN server_compile_caps.field_version ELSE @,
                          !.compile_caps.sql_version =
                              IF server_compile_caps.sql_version < @
                                  THEN server_compile_caps.sql_version ELSE @]
                  ELSE c
    IN  IF server_runtime_caps.len > TNS_RCAP_TTC
            THEN [cc EXCEPT !.runtime_caps.ttc =
                                IF server_runtime_caps.ttc < @
                                    THEN server_runtime_caps.ttc ELSE @]
            ELSE cc

\* adjust_for_server_caps: the server's field version is stored and ours is
\* lowered to it; the runtime caps are looked at and nothing is stored
adjust_for_server_caps(c, server_compile_caps, server_runtime_caps) ==
    IF server_compile_caps.len > TNS_CCAP_FIELD_VERSION
        THEN [c EXCEPT
                !.server_ttc_field_version = server_compile_caps.field_version,
                !.ttc_field_version =
                    IF server_compile_caps.field_version < @
                        THEN server_compile_caps.field_version ELSE @,
                !.compile_caps.field_version =
                    IF server_compile_caps.field_version < c.ttc_field_version
                        THEN server_compile_caps.field_version ELSE @]
        ELSE c

\* the two calls made for a PROTOCOL message: read_bytes_with_length gives
\* None for a zero length byte, and then the call is not made
AdjustForProtocolMessage(c, m) ==
    LET c1 == IF m.ccaps.len # 0
                  THEN adjust_for_server_caps(c, m.ccaps, NoRuntimeCaps) ELSE c
    IN  IF m.rcaps.len # 0
            THEN adjust_for_server_caps(c1, NoCompileCaps, m.rcaps) ELSE c1

(* ---------------------------------------------------------------------- *)
(* ExecuteMessage (src/src/protocol/messages/execute.rs)                   *)
(* ---------------------------------------------------------------------- *)
\* ExecuteMessage::new_query: no cursor yet, no defines
new_query(prefetch_rows) ==
    [cursor_id |-> 0, is_query |-> TRUE, sequence_number |-> 1,
     prefetch_rows |-> prefetch_rows, fetch_var_impls |-> FALSE,
     parse_only |-> FALSE]

\* ExecuteMessage::new_define: an existing cursor, defines given
new_define(cursor_id, prefetch_rows) ==
    [cursor_id |-> cursor_id, is_query |-> TRUE, sequence_number |-> 2,
     prefetch_rows |-> prefetch_rows, fetch_var_impls |-> TRUE,
     parse_only |-> FALSE]

\* the option word is the sum of its bits, each set at most once
Bit(cond, b) == IF cond THEN b ELSE 0
HasBit(options, b) == (options \div b) % 2 = 1

\* variant: a define with prefetch rows also asks for the fetch
calc_options_define_fetch(m) ==
    Bit(m.fetch_var_impls, TNS_EXEC_OPTION_DEFINE)
    + Bit(~m.fetch_var_impls /\ ~m.parse_only, TNS_EXEC_OPTION_EXECUTE)
    + Bit(m.cursor_id = 0, TNS_EXEC_OPTION_PARSE)
    + Bit(m.parse_only, TNS_EXEC_OPTION_DESCRIBE)
    + Bit(m.is_query /\ m.prefetch_rows > 0, TNS_EXEC_OPTION_FETCH)
    + Bit(~m.parse_only, TNS_EXEC_OPTION_NOT_PLSQL)

\* ExecuteMessage::calc_options
calc_options(m) ==
    Bit(m.fetch_var_impls, TNS_EXEC_OPTION_DEFINE)
    + Bit(~m.fetch_var_impls /\ ~m.parse_only, TNS_EXEC_OPTION_EXECUTE)
    + Bit(m.cursor_id = 0, TNS_EXEC_OPTION_PARSE)
    + Bit(m.parse_only, TNS_EXEC_OPTION_DESCRIBE)
    + Bit(m.is_query /\ m.prefetch_rows > 0 /\ ~m.fetch_var_impls,
          TNS_EXEC_OPTION_FETCH)
    + Bit(~m.parse_only, TNS_EXEC_OPTION_NOT_PLSQL)

\* ExecuteMessage::write_to: the fields of the message that matter here
ExecuteWriteTo(m) ==
    [options |-> calc_options(m), cursor_id |-> m.cursor_id,
     sequence_number |-> m.sequence_number]

\* an ExecuteMessage sent with send_data_message
ExecuteRequest(kind, m, req) ==
    Pkt(TNS_PACKET_TYPE_DATA, <<>>, <<ExecuteWriteTo(m)>>, req, FALSE, kind)

(* ---------------------------------------------------------------------- *)
(* Response parsing (src/src/protocol/response.rs)                         *)
(* ---------------------------------------------------------------------- *)
\* ExecuteResponse::new / FetchResponse::new with ErrorInfo::default();
\* has_columns: column metadata is known to the parser
NewResponse(has_columns) ==
    [ok |-> TRUE, done |-> FALSE, has_columns |-> has_columns, rows |-> 0,
     error_num |-> 0, cursor_id |-> 0, more_rows |-> FALSE]

\* one iteration of the message loop; describe: DESCRIBE_INFO is a known type
\* (parse_execute_response) or not (parse_fetch_response)
ParseMessage(r, m, describe) ==
    IF m.t = TNS_MSG_TYPE_DESCRIBE_INFO /\ describe
        THEN [r EXCEPT !.has_columns = TRUE]
    ELSE IF m.t = TNS_MSG_TYPE_ROW_DATA
        THEN IF r.has_columns THEN [r EXCEPT !.rows = @ + 1]
             ELSE [r EXCEPT !.ok = FALSE]
    ELSE IF m.t = TNS_MSG_TYPE_ERROR
        THEN [r EXCEPT !.error_num = m.num, !.cursor_id = m.cid]
    ELSE IF m.t = TNS_MSG_TYPE_END_OF_RESPONSE
        THEN [r EXCEPT !.done = TRUE]
    ELSE IF m.t \in {TNS_MSG_TYPE_ROW_HEADER, TNS_MSG_TYPE_PARAMETER,
                     TNS_MSG_TYPE_BIT_VECTOR, TNS_MSG_TYPE_STATUS,
                     TNS_MSG_TYPE_SERVER_SIDE_PIGGYBACK}
        THEN r
    ELSE [r EXCEPT !.ok = FALSE]

RECURSIVE ParseMessages(_, _, _)
ParseMessages(msgs, r, describe) ==
    IF msgs = <<>> \/ r.done \/ ~r.ok THEN r
    ELSE ParseMessages(Tail(msgs), ParseMessage(r, Head(msgs), describe), describe)

\* variant: the flag is computed without the guard on the error number
SetMoreRowsUnguarded(r) ==
    [r EXCEPT !.more_rows = (r.error_num # ORA_NO_DATA_FOUND)]

\* the closing statement of both parsers: more_rows from the error number
SetMoreRows(r) ==
    IF r.error_num = 0 \/ r.error_num = ORA_NO_DATA_FOUND
        THEN [r EXCEPT !.more_rows = (r.error_num = 0)]
        ELSE r

\* parse_execute_response; columns: the caller handed the known column list
parse_execute_response(msgs, columns) ==
    LET r == ParseMessages(msgs, NewResponse(columns), TRUE)
    IN  IF r.ok THEN SetMoreRows(r) ELSE r

\* parse_fetch_response: the cursor's columns are always given
parse_fetch_response(msgs) ==
    LET r == ParseMessages(msgs, NewResponse(TRUE), FALSE)
    IN  IF r.ok THEN SetMoreRows(r) ELSE r

(* ---------------------------------------------------------------------- *)
(* Results of operations                                                   *)
(* ---------------------------------------------------------------------- *)
Result(op, status, code, more_rows, rows, req) ==
    [op |-> op, status |-> status, code |-> code, more_rows |-> more_rows,
     rows |-> rows, req |-> req]
NoResult == Result("none", "none", 0, FALSE, 0, 0)
\* no response parsed yet
NoResponse == [NewResponse(FALSE) EXCEPT !.ok = FALSE]
NoCursor == [alive |-> FALSE, cursor_id |-> 0, more_rows |-> FALSE]

(* ---------------------------------------------------------------------- *)
(* How a call of the client ends or goes on                                *)
(* ---------------------------------------------------------------------- *)
\* the operation returns to the caller (Ok or Err): the connection is idle
Finish(res, lg, pr, cur, rsp) ==
    /\ pc' = "idle"
    /\ resp' = rsp
    /\ rd' = "outer"
    /\ inbox' = inbox
    /\ log' = lg
    /\ parsed' = pr
    /\ qbuf' = <<>>
    /\ outcome' = res
    /\ prev' = outcome
    /\ cursor' = cur
    /\ nreq' = nreq
    /\ awaiting' = awaiting - 1
    /\ caps' = caps

\* the read loop goes round again at position pos, having sent `out`
KeepReading(pos, lg, out) ==
    /\ pc' = pc
    /\ rd' = pos
    /\ inbox' = inbox \o out
    /\ log' = lg
    /\ UNCHANGED <<parsed, qbuf, resp, outcome, prev, cursor, nreq, awaiting, caps>>

(* ---------------------------------------------------------------------- *)
(* Connection::query (src/src/connection.rs)                               *)
(* ---------------------------------------------------------------------- *)
\* step 1: send PARSE+EXECUTE and wait in read_data_response
Query ==
    /\ pc = "idle"
    /\ ~cursor.alive
    /\ nops < MaxOps
    /\ nops' = nops + 1
    /\ nreq' = nreq + 1
    /\ LET m == ExecuteRequest("EXECUTE", new_query(DEFAULT_PREFETCH_ROWS), nreq + 1)
       IN  /\ inbox' = Append(inbox, m)
           /\ log' = <<Ev("send", m)>>
    /\ parsed' = <<>>
    /\ qbuf' = <<>>
    /\ pc' = "query1"
    /\ rd' = "outer"
    /\ awaiting' = awaiting + 1
    /\ UNCHANGED <<framer, rowc, side, caps, attempts, wire, srv, resp, outcome, prev, cursor>>

\* after the step-1 read returned packet p: parse, then either send the
\* DEFINE (more rows announced, none delivered) or return the QueryResult
QueryAfterExecute(p, lg) ==
    LET r == parse_execute_response(p.msgs, FALSE)
        pr == Append(parsed, p)
    IN  IF ~r.ok
            THEN Finish(Result("query", "Protocol", 0, FALSE, 0, p.req), lg, pr, cursor, resp)
        ELSE IF r.more_rows /\ r.rows = 0
            THEN /\ pc' = "query2"
                 /\ rd' = "outer"
                 /\ nreq' = nreq + 1
                 /\ LET m == ExecuteRequest("DEFINE",
                                            new_define(r.cursor_id, DEFAULT_PREFETCH_ROWS),
                                            nreq + 1)
                    IN  /\ inbox' = Append(inbox, m)
                        /\ log' = Append(lg, Ev("send", m))
                 /\ parsed' = pr
                 /\ qbuf' = <<>>
                 /\ awaiting' = (awaiting - 1) + 1
                 /\ resp' = r
                 /\ UNCHANGED <<outcome, prev, cursor, caps>>
        ELSE Finish(Result("query", "Ok", r.error_num, r.more_rows, r.rows, p.req),
                    lg, pr, cursor, r)

\* step 2: every packet of the DEFINE response is appended; the last one
\* (more_data false) ends the loop and the concatenation is parsed
QueryAfterDefine(p, lg) ==
    LET buf == qbuf \o p.msgs
        r == parse_execute_response(buf, TRUE)
        pr == Append(parsed, p)
    IN  IF p.more_data
            THEN /\ qbuf' = buf
                 /\ parsed' = pr
                 /\ log' = lg
                 /\ rd' = "outer"
                 /\ UNCHANGED <<pc, inbox, resp, outcome, prev, cursor, nreq, awaiting, caps>>
        ELSE IF ~r.ok
            THEN Finish(Result("query", "Protocol", 0, FALSE, 0, p.req), lg, pr, cursor, resp)
        ELSE Finish(Result("query", "Ok", r.error_num, r.more_rows, r.rows, p.req),
                    lg, pr, cursor, r)

(* ---------------------------------------------------------------------- *)
(* Connection::open_row_cursor (src/src/connection.rs)                     *)
(* ---------------------------------------------------------------------- *)
OpenRowCursor ==
    /\ pc = "idle"
    /\ ~cursor.alive
    /\ nops < MaxOps
    /\ nops' = nops + 1
    /\ nreq' = nreq + 1
    /\ LET m == ExecuteRequest("EXECUTE", new_query(DEFAULT_PREFETCH_ROWS), nreq + 1)
       IN  /\ inbox' = Append(inbox, m)
           /\ log' = <<Ev("send", m)>>
    /\ parsed' = <<>>
    /\ qbuf' = <<>>
    /\ pc' = "open"
    /\ rd' = "outer"
    /\ awaiting' = awaiting + 1
    /\ UNCHANGED <<framer, rowc, side, caps, attempts, wire, srv, resp, outcome, prev, cursor>>

\* variant: every non-zero code is reported as an Oracle error
IsOracleErrorAnyCode(error_num) == error_num # 0

\* the check for Oracle errors after a parsed response
IsOracleError(error_num) == error_num # 0 /\ error_num # ORA_NO_DATA_FOUND

OpenAfterExecute(p, lg) ==
    LET r == parse_execute_response(p.msgs, FALSE)
        pr == Append(parsed, p)
    IN  IF ~r.ok
            THEN Finish(Result("open", "Protocol", 0, FALSE, 0, p.req), lg, pr, cursor, resp)
        ELSE IF IsOracleError(r.error_num)
            THEN Finish(Result("open", "Oracle", r.error_num, FALSE, 0, p.req),
                        lg, pr, cursor, r)
        ELSE Finish(Result("open", "Ok", r.error_num, r.more_rows, r.rows, p.req),
                    lg, pr,
                    [alive |-> TRUE, cursor_id |-> r.cursor_id,
                     more_rows |-> r.more_rows], r)

(* ---------------------------------------------------------------------- *)
(* RowCursor fetch over Connection::send_message_and_read_response         *)
(* ---------------------------------------------------------------------- *)
\* variant: the message is sent and the call returns without reading
send_without_read ==
    /\ nreq' = nreq + 1
    /\ inbox' = Append(inbox, Request("FETCH", nreq + 1))
    /\ log' = <<Ev("send", Request("FETCH", nreq + 1))>>
    /\ pc' = "idle"
    /\ rd' = "outer"
    /\ awaiting' = awaiting + 1

\* send_message_and_read_response: send the FETCH, then read_data_response
send_message_and_read_response ==
    /\ nreq' = nreq + 1
    /\ inbox' = Append(inbox, Request("FETCH", nreq + 1))
    /\ log' = <<Ev("send", Request("FETCH", nreq + 1))>>
    /\ pc' = "fetch"
    /\ rd' = "outer"
    /\ awaiting' = awaiting + 1

\* the cursor asks for the next batch when the server has more rows
Fetch ==
    /\ pc = "idle"
    /\ cursor.alive
    /\ cursor.more_rows
    /\ nops < MaxOps
    /\ nops' = nops + 1
    /\ parsed' = <<>>
    /\ qbuf' = <<>>
    /\ send_message_and_read_response
    /\ UNCHANGED <<framer, rowc, side, caps, attempts, wire, srv, resp, outcome, prev, cursor>>

FetchAfterResponse(p, lg) ==
    LET r == parse_fetch_response(p.msgs)
        pr == Append(parsed, p)
    IN  IF ~r.ok
            THEN Finish(Result("fetch", "Protocol", 0, FALSE, 0, p.req), lg, pr, cursor, resp)
        ELSE IF IsOracleError(r.error_num)
            THEN Finish(Result("fetch", "Oracle", r.error_num, FALSE, 0, p.req),
                        lg, pr, cursor, r)
        ELSE Finish(Result("fetch", "Ok", r.error_num, r.more_rows, r.rows, p.req),
                    lg, pr, [cursor EXCEPT !.more_rows = r.more_rows], r)

\* the cursor is dropped: the connection is no longer borrowed
DropCursor ==
    /\ pc = "idle"
    /\ cursor.alive
    /\ cursor' = NoCursor
    /\ UNCHANGED <<framer, rowc, side, caps, pc, rd, attempts, wire, inbox, srv, log, parsed, qbuf, resp,
                   outcome, prev, nops, nreq, awaiting>>

(* ---------------------------------------------------------------------- *)
(* Connection::read_data_response (src/src/connection.rs)                  *)
(* ---------------------------------------------------------------------- *)
StatementCalls == {"query1", "query2", "open", "fetch"}

\* read_data_response returned Ok(p) to the call that awaits it
Deliver(p, lg) ==
    CASE pc = "query1" -> QueryAfterExecute(p, lg)
      [] pc = "query2" -> QueryAfterDefine(p, lg)
      [] pc = "open"   -> OpenAfterExecute(p, lg)
      [] pc = "fetch"  -> FetchAfterResponse(p, lg)

\* variant: the inner loop is entered without sending the RESET marker
OuterMarkerNoReset(p, lg) == KeepReading("inner", lg, <<>>)

\* outer loop, MARKER arm: send the RESET marker, then enter the inner loop
OuterMarker(p, lg) ==
    KeepReading("inner", Append(lg, Ev("send", ResetMarker(p.req))),
                <<ResetMarker(p.req)>>)

\* variant: a packet of an unhandled type is skipped like a CONTROL packet
OuterOtherSkips(p, lg) == KeepReading("outer", lg, <<>>)

\* outer loop, every other type: Err(UnexpectedPacketType), passed on by `?`
OuterOther(p, lg) ==
    Finish(Result(pc, "UnexpectedPacketType", p.ptype, FALSE, 0, p.req),
           lg, parsed, cursor, resp)

\* variant: CONTROL falls into the arm of the unhandled types
OuterControlFails(p, lg) == OuterOther(p, lg)

\* variant: the CONTROL arm handles the packet as the handshake's reader
\* does and touches the OOB capability
OuterControlTouchesCaps(p, lg) ==
    /\ pc' = pc
    /\ rd' = "outer"
    /\ inbox' = inbox
    /\ log' = lg
    /\ caps' = [caps EXCEPT !.supports_oob = ~@]
    /\ UNCHANGED <<parsed, qbuf, resp, outcome, prev, cursor, nreq, awaiting>>

\* outer loop, CONTROL arm: just continue
OuterControl(p, lg) == KeepReading("outer", lg, <<>>)

\* variant: the server's RESET marker ends the call with the Oracle error,
\* the DATA packet that carries the error is left unread
InnerMarkerReturns(p, lg) ==
    IF IsResetMarker(p)
        THEN Finish(Result(pc, "Oracle", ORA_TABLE_NOT_FOUND, FALSE, 0, p.req),
                    lg, parsed, cursor, resp)
        ELSE KeepReading("inner", lg, <<>>)

\* inner loop, MARKER: the server's RESET ends the drain, others are skipped
InnerMarker(p, lg) ==
    IF IsResetMarker(p)
        THEN KeepReading("outer", lg, <<>>)
        ELSE KeepReading("inner", lg, <<>>)

\* inner loop, neither MARKER nor DATA: the loop goes round
InnerOther(p, lg) == KeepReading("inner", lg, <<>>)

\* one turn of the outer loop
ReadOuter ==
    /\ pc \in StatementCalls
    /\ rd = "outer"
    /\ wire # <<>>
    /\ LET p == Head(wire)
           lg == Append(log, Ev("recv", p))
       IN  /\ wire' = Tail(wire)
           /\ IF p.ptype = TNS_PACKET_TYPE_DATA
                  THEN Deliver(p, lg)
              ELSE IF p.ptype = TNS_PACKET_TYPE_MARKER
                  THEN OuterMarker(p, lg)
              ELSE IF p.ptype = TNS_PACKET_TYPE_CONTROL
                  THEN OuterControl(p, lg)
              ELSE OuterOther(p, lg)
    /\ UNCHANGED <<framer, rowc, side, attempts, srv, nops>>

\* one turn of the inner loop, entered after the client's RESET was sent
ReadInner ==
    /\ pc \in StatementCalls
    /\ rd = "inner"
    /\ wire # <<>>
    /\ LET p == Head(wire)
           lg == Append(log, Ev("recv", p))
       IN  /\ wire' = Tail(wire)
           /\ IF p.ptype = TNS_PACKET_TYPE_MARKER
                  THEN InnerMarker(p, lg)
              ELSE IF p.ptype = TNS_PACKET_TYPE_DATA
                  THEN Deliver(p, lg)
              ELSE InnerOther(p, lg)
    /\ UNCHANGED <<framer, rowc, side, attempts, srv, nops>>

(* ---------------------------------------------------------------------- *)
(* Handshake after ACCEPT: exchange_data_types (src/src/protocol/connect.rs)*)
(* and authenticate (src/src/protocol/auth.rs)                             *)
(* ---------------------------------------------------------------------- *)
\* the handshake call returns Err: Connection::connect fails, no connection
FailConnect(status, code, p, lg, pr) ==
    /\ pc' = "failed"
    /\ rd' = "outer"
    /\ inbox' = inbox
    /\ log' = lg
    /\ parsed' = pr
    /\ outcome' = Result(pc, status, code, FALSE, 0, p.req)
    /\ prev' = outcome
    /\ awaiting' = awaiting - 1
    /\ UNCHANGED <<qbuf, resp, cursor, nreq, caps>>

\* the handshake goes on with the next request
NextRequest(call, kind, lg, pr) ==
    /\ pc' = call
    /\ rd' = "first"
    /\ nreq' = nreq + 1
    /\ inbox' = Append(inbox, Request(kind, nreq + 1))
    /\ log' = Append(lg, Ev("send", Request(kind, nreq + 1)))
    /\ parsed' = pr
    /\ awaiting' = (awaiting - 1) + 1
    /\ UNCHANGED <<qbuf, resp, outcome, prev, cursor, caps>>

\* exchange_data_types, step 1: send the PROTOCOL message
ExchangeDataTypes ==
    /\ pc = "start"
    /\ pc' = "dt1"
    /\ rd' = "first"
    /\ nreq' = nreq + 1
    /\ inbox' = Append(inbox, Request("PROTOCOL", nreq + 1))
    /\ log' = <<Ev("send", Request("PROTOCOL", nreq + 1))>>
    /\ awaiting' = awaiting + 1
    /\ UNCHANGED <<framer, rowc, side, caps, attempts, wire, srv, parsed, qbuf, resp, outcome, prev, cursor, nops>>

\* exchange_data_types on the PROTOCOL reply: the server's compile caps
\* adjust the capabilities, then the DATA_TYPES message is sent
ProtocolReply(p, lg, pr) ==
    /\ pc' = "dt2"
    /\ rd' = "first"
    /\ nreq' = nreq + 1
    /\ inbox' = Append(inbox, Request("DATA_TYPES", nreq + 1))
    /\ log' = Append(lg, Ev("send", Request("DATA_TYPES", nreq + 1)))
    /\ parsed' = pr
    /\ awaiting' = (awaiting - 1) + 1
    /\ caps' = IF p.msgs[1].t = TNS_MSG_TYPE_PROTOCOL
                   THEN AdjustForProtocolMessage(caps, p.msgs[1])
                   ELSE caps
    /\ UNCHANGED <<qbuf, resp, outcome, prev, cursor>>

\* read_data_packet, CONTROL arm: the reset-OOB control packet switches
\* OOB off, then the loop goes round
ControlResetOob(lg) ==
    /\ caps' = [caps EXCEPT !.supports_oob = FALSE]
    /\ log' = lg
    /\ UNCHANGED <<pc, rd, inbox, parsed, qbuf, resp, outcome, prev, cursor, nreq,
                   awaiting>>

\* read_data_packet, one turn, with what exchange_data_types does on return:
\* after the PROTOCOL reply send DATA_TYPES; after the DATA_TYPES reply
\* phase_one sends its message
read_data_packet ==
    /\ pc \in {"dt1", "dt2"}
    /\ wire # <<>>
    /\ LET p == Head(wire)
           lg == Append(log, Ev("recv", p))
           pr == Append(parsed, p)
       IN  /\ wire' = Tail(wire)
           /\ IF p.ptype = TNS_PACKET_TYPE_DATA
                  THEN IF pc = "dt1"
                           THEN ProtocolReply(p, lg, pr)
                       ELSE IF p.msgs[1].t # TNS_MSG_TYPE_DATA_TYPES
                           THEN FailConnect("Protocol", 0, p, lg, pr)
                       ELSE NextRequest("p1", "AUTH1", lg, pr)
              ELSE IF p.ptype = TNS_PACKET_TYPE_CONTROL
                  THEN ControlResetOob(lg)
              ELSE FailConnect("UnexpectedPacketType", p.ptype, p, lg, parsed)
    /\ UNCHANGED <<framer, rowc, side, attempts, srv, nops>>

\* parse_auth_response: an ERROR message is the server's refusal
AuthRefused(p) == p.msgs[1].t = TNS_MSG_TYPE_ERROR

\* phase_one / phase_two: the one read after the message was sent
AuthRead ==
    /\ pc \in {"p1", "p2"}
    /\ rd = "first"
    /\ wire # <<>>
    /\ LET p == Head(wire)
           lg == Append(log, Ev("recv", p))
           pr == Append(parsed, p)
       IN  /\ wire' = Tail(wire)
           /\ IF p.ptype = TNS_PACKET_TYPE_MARKER
                  THEN /\ KeepReading(IF pc = "p1" THEN "loop1" ELSE "loop",
                                      Append(lg, Ev("send", ResetMarker(p.req))),
                                      <<ResetMarker(p.req)>>)
                       /\ attempts' = 0
              ELSE IF p.ptype # TNS_PACKET_TYPE_DATA
                  THEN /\ FailConnect("UnexpectedPacketType", p.ptype, p, lg, parsed)
                       /\ attempts' = attempts
              ELSE IF AuthRefused(p)
                  THEN /\ FailConnect("Oracle", p.msgs[1].num, p, lg, pr)
                       /\ attempts' = attempts
              ELSE IF pc = "p1"
                  THEN /\ NextRequest("p2", "AUTH2", lg, pr)
                       /\ attempts' = attempts
              ELSE /\ Finish(Result("connect", "Ok", 0, FALSE, 0, p.req), lg, pr, cursor, resp)
                   /\ attempts' = attempts
    /\ UNCHANGED <<framer, rowc, side, caps, srv, nops>>

\* handle_marker_and_get_error, first loop: until the server's RESET marker
\* or a DATA packet
AuthMarkerLoop1 ==
    /\ pc = "p1"
    /\ rd = "loop1"
    /\ wire # <<>>
    /\ LET p == Head(wire)
           lg == Append(log, Ev("recv", p))
           pr == Append(parsed, p)
       IN  /\ wire' = Tail(wire)
           /\ IF p.ptype = TNS_PACKET_TYPE_MARKER
                  THEN IF AuthMarkerType(p) = TNS_MARKER_TYPE_RESET
                           THEN KeepReading("loop2", lg, <<>>)
                           ELSE KeepReading("loop1", lg, <<>>)
              ELSE IF p.ptype = TNS_PACKET_TYPE_DATA
                  THEN IF AuthRefused(p)
                           THEN FailConnect("Oracle", p.msgs[1].num, p, lg, pr)
                           ELSE KeepReading("loop2", lg, <<>>)
              ELSE KeepReading("loop1", lg, <<>>)
    /\ UNCHANGED <<framer, rowc, side, caps, attempts, srv, nops>>

\* handle_marker_and_get_error, second loop: skip markers, at most
\* MAX_MARKER_ATTEMPTS reads, until the DATA packet with the error
AuthMarkerLoop2 ==
    /\ pc = "p1"
    /\ rd = "loop2"
    /\ IF attempts + 1 > MAX_MARKER_ATTEMPTS
           THEN /\ FailConnect("Protocol", 0, [req |-> nreq], log, parsed)
                /\ UNCHANGED <<attempts, wire>>
           ELSE /\ wire # <<>>
                /\ attempts' = attempts + 1
                /\ wire' = Tail(wire)
                /\ LET p == Head(wire)
                       lg == Append(log, Ev("recv", p))
                       pr == Append(parsed, p)
                   IN  IF p.ptype = TNS_PACKET_TYPE_DATA
                           THEN IF AuthRefused(p)
                                    THEN FailConnect("Oracle", p.msgs[1].num, p, lg, pr)
                                    ELSE FailConnect("Protocol", 0, p, lg, pr)
                       ELSE IF p.ptype # TNS_PACKET_TYPE_MARKER
                           THEN FailConnect("Protocol", 0, p, lg, parsed)
                       ELSE KeepReading("loop2", lg, <<>>)
    /\ UNCHANGED <<framer, rowc, side, caps, srv, nops>>

\* handle_marker_and_get_error_phase2: at most MAX_MARKER_ATTEMPTS reads
\* until a DATA packet
AuthMarkerPhase2 ==
    /\ pc = "p2"
    /\ rd = "loop"
    /\ IF attempts >= MAX_MARKER_ATTEMPTS
           THEN /\ FailConnect("Protocol", 0, [req |-> nreq], log, parsed)
                /\ UNCHANGED <<attempts, wire>>
           ELSE /\ wire # <<>>
                /\ attempts' = attempts + 1
                /\ wire' = Tail(wire)
                /\ LET p == Head(wire)
                       lg == Append(log, Ev("recv", p))
                       pr == Append(parsed, p)
                   IN  IF p.ptype = TNS_PACKET_TYPE_DATA
                           THEN IF AuthRefused(p)
                                    THEN FailConnect("Oracle", p.msgs[1].num, p, lg, pr)
                                    ELSE FailConnect("Protocol", 0, p, lg, pr)
                       ELSE KeepReading("loop", lg, <<>>)
    /\ UNCHANGED <<framer, rowc, side, caps, srv, nops>>

(* ---------------------------------------------------------------------- *)
(* The server (environment): what it puts on the wire for a request        *)
(* ---------------------------------------------------------------------- *)
\* the cursor id the server assigns, and the error it reports for a login
ServerCursorId == TNS_MSG_TYPE_ROW_DATA
ORA_LOGON_DENIED == 1000 + 17
\* a message type byte no parser knows
MSG_TYPE_UNKNOWN == TNS_MSG_TYPE_END_OF_RESPONSE + 70

BreakBytes == <<1, 0, TNS_MARKER_TYPE_BREAK>>
ResetBytes == <<1, 0, TNS_MARKER_TYPE_RESET>>

\* the PROTOCOL message with the capability arrays the server reports: an
\* older server (lower bytes everywhere), one at the client's level, one
\* whose compile caps stop before the field version, one that sends none
ProtocolMsg(ccaps, rcaps) ==
    [t |-> TNS_MSG_TYPE_PROTOCOL, num |-> 0, cid |-> 0,
     ccaps |-> ccaps, rcaps |-> rcaps]
ServerProtocolMsgs ==
    {ProtocolMsg(CompileCaps(TNS_CCAP_MAX, TNS_CCAP_SQL_VERSION_MAX - 1,
                             TNS_CCAP_FIELD_VERSION_19_1_EXT_1),
                 RuntimeCaps(TNS_RCAP_MAX, TNS_RCAP_COMPAT_81 - 1, TNS_RCAP_TTC_ZERO_COPY)),
     ProtocolMsg(CompileCaps(TNS_CCAP_MAX, TNS_CCAP_SQL_VERSION_MAX,
                             TNS_CCAP_FIELD_VERSION_MAX),
                 RuntimeCaps(TNS_RCAP_MAX, TNS_RCAP_COMPAT_81,
                             TNS_RCAP_TTC_ZERO_COPY + TNS_RCAP_TTC_32K)),
     ProtocolMsg(CompileCaps(TNS_CCAP_FIELD_VERSION, TNS_CCAP_SQL_VERSION_MAX - 1, 0),
                 NoRuntimeCaps)}

\* the payloads of a single-packet answer to a request of each kind
Bodies(kind) ==
    CASE kind = "PROTOCOL" ->
            {<<m>> : m \in ServerProtocolMsgs}
      [] kind = "DATA_TYPES" -> {<<Plain(TNS_MSG_TYPE_DATA_TYPES)>>,
                                 <<Plain(TNS_MSG_TYPE_STATUS)>>}
      [] kind \in {"AUTH1", "AUTH2"} ->
            {<<Plain(TNS_MSG_TYPE_PARAMETER)>>, <<ErrorMsg(ORA_LOGON_DENIED, 0)>>}
      [] kind = "EXECUTE" ->
            {<<Plain(TNS_MSG_TYPE_DESCRIBE_INFO), Plain(TNS_MSG_TYPE_ROW_HEADER),
               Plain(TNS_MSG_TYPE_ROW_DATA), ErrorMsg(0, ServerCursorId)>>,
             <<Plain(TNS_MSG_TYPE_DESCRIBE_INFO), Plain(TNS_MSG_TYPE_ROW_DATA),
               ErrorMsg(ORA_NO_DATA_FOUND, ServerCursorId)>>,
             <<Plain(TNS_MSG_TYPE_DESCRIBE_INFO), ErrorMsg(0, ServerCursorId)>>,
             <<Plain(TNS_MSG_TYPE_DESCRIBE_INFO)>>,
             <<ErrorMsg(ORA_TABLE_NOT_FOUND, 0)>>,
             <<Plain(MSG_TYPE_UNKNOWN)>>}
      [] kind = "DEFINE" ->
            {<<Plain(TNS_MSG_TYPE_ROW_DATA), ErrorMsg(ORA_NO_DATA_FOUND, ServerCursorId)>>,
             <<Plain(TNS_MSG_TYPE_ROW_DATA), ErrorMsg(0, ServerCursorId)>>}
      [] kind = "FETCH" ->
            {<<Plain(TNS_MSG_TYPE_ROW_DATA), ErrorMsg(0, ServerCursorId)>>,
             <<ErrorMsg(ORA_NO_DATA_FOUND, ServerCursorId)>>,
             <<ErrorMsg(ORA_TABLE_NOT_FOUND, ServerCursorId)>>}

\* the error response that follows a BREAK
ErrorBody(kind) ==
    IF kind \in {"AUTH1", "AUTH2"} THEN <<ErrorMsg(ORA_LOGON_DENIED, 0)>>
    ELSE <<ErrorMsg(ORA_TABLE_NOT_FOUND, 0)>>

Repeat(n, x) == [i \in 1..n |-> x]

\* a body as one packet, or (DEFINE only) split over two packets, the first
\* carrying the continuation flag
Packets(kind, req, body) ==
    {<<DataPkt(req, body, FALSE)>>} \cup
    (IF kind = "DEFINE" /\ Len(body) > 1
        THEN {<<DataPkt(req, <<Head(body)>>, TRUE), DataPkt(req, Tail(body), FALSE)>>}
        ELSE {})

\* what follows the client's RESET: the server's RESET marker (sometimes
\* with a short payload or one more marker) and the error, or the error
\* alone, or a packet of a foreign type first
AfterReset(kind, req) ==
    LET err == DataPkt(req, ErrorBody(kind), FALSE)
    IN  {<<MarkerPkt(req, ResetBytes), err>>,
         <<MarkerPkt(req, ResetBytes), MarkerPkt(req, BreakBytes), err>>,
         <<MarkerPkt(req, <<TNS_MARKER_TYPE_RESET>>), err>>,
         <<ControlPkt(req), MarkerPkt(req, ResetBytes), err>>,
         <<OtherPkt(req), MarkerPkt(req, ResetBytes), err>>,
         <<err>>}

\* the server answers a request: CONTROL packets, then the response
ServerAnswer ==
    /\ inbox # <<>>
    /\ Head(inbox).kind # "RESET"
    /\ srv.mode = "idle"
    /\ LET m == Head(inbox)
       IN  \E c \in 0..MaxCtrl : \E body \in Bodies(m.kind) :
           \E pk \in Packets(m.kind, m.req, body) :
               wire' = wire \o Repeat(c, ControlPkt(m.req)) \o pk
    /\ inbox' = Tail(inbox)
    /\ UNCHANGED <<framer, rowc, side, caps, pc, rd, attempts, srv, log, parsed, qbuf, resp, outcome, prev,
                   cursor, nops, nreq, awaiting>>

\* the server interrupts a request: BREAK markers, the error comes after
\* the client's RESET
ServerBreak ==
    /\ inbox # <<>>
    /\ Head(inbox).kind \in {"AUTH1", "AUTH2", "EXECUTE", "DEFINE", "FETCH"}
    /\ srv.mode = "idle"
    /\ LET m == Head(inbox)
       IN  /\ \E c \in 0..MaxCtrl : \E n \in 1..MaxBreak :
                 wire' = wire \o Repeat(IF m.kind \in {"AUTH1", "AUTH2"} THEN 0 ELSE c,
                                        ControlPkt(m.req))
                              \o Repeat(n, MarkerPkt(m.req, BreakBytes))
           /\ srv' = [mode |-> "await_reset", kind |-> m.kind, req |-> m.req]
    /\ inbox' = Tail(inbox)
    /\ UNCHANGED <<framer, rowc, side, caps, pc, rd, attempts, log, parsed, qbuf, resp, outcome, prev,
                   cursor, nops, nreq, awaiting>>

\* the client's RESET arrived: the server completes the exchange
ServerAfterReset ==
    /\ inbox # <<>>
    /\ Head(inbox).kind = "RESET"
    /\ srv.mode = "await_reset"
    /\ \E pk \in AfterReset(srv.kind, srv.req) : wire' = wire \o pk
    /\ srv' = [mode |-> "idle", kind |-> "", req |-> 0]
    /\ inbox' = Tail(inbox)
    /\ UNCHANGED <<framer, rowc, side, caps, pc, rd, attempts, log, parsed, qbuf, resp, outcome, prev,
                   cursor, nops, nreq, awaiting>>

\* a RESET the server did not wait for is dropped
ServerDropReset ==
    /\ inbox # <<>>
    /\ Head(inbox).kind = "RESET"
    /\ srv.mode = "idle"
    /\ inbox' = Tail(inbox)
    /\ UNCHANGED <<framer, rowc, side, caps, pc, rd, attempts, wire, srv, log, parsed, qbuf, resp, outcome, prev,
                   cursor, nops, nreq, awaiting>>

\* a packet of a type the dispatcher does not handle instead of an answer
ServerForeignPacket ==
    /\ inbox # <<>>
    /\ Head(inbox).kind \in {"EXECUTE", "DEFINE", "FETCH"}
    /\ srv.mode = "idle"
    /\ wire' = Append(wire, OtherPkt(Head(inbox).req))
    /\ inbox' = Tail(inbox)
    /\ UNCHANGED <<framer, rowc, side, caps, pc, rd, attempts, srv, log, parsed, qbuf, resp, outcome, prev,
                   cursor, nops, nreq, awaiting>>

(* ---------------------------------------------------------------------- *)
(* Specification                                                           *)
(* ---------------------------------------------------------------------- *)
\* the state of a Connection just built, before its first request
ConnBuilt ==
    /\ pc = "start"
    /\ rd = "outer"
    /\ attempts = 0
    /\ wire = <<>>
    /\ inbox = <<>>
    /\ srv = [mode |-> "idle", kind |-> "", req |-> 0]
    /\ log = <<>>
    /\ parsed = <<>>
    /\ qbuf = <<>>
    /\ resp = NoResponse
    /\ outcome = NoResult
    /\ prev = NoResult
    /\ cursor = NoCursor
    /\ nops = 0
    /\ nreq = 0
    /\ awaiting = 0

\* .. on the path without FastAuth
InitConn ==
    /\ ConnBuilt
    /\ caps = adjust_for_protocol(NewCapabilities, TNS_VERSION_DESIRED,
                                  Flags2(FALSE, FALSE))

\* the framer of a connection whose handshake is over: nothing buffered
\* a connect descriptor of n bytes
Descriptor(n) == [i \in 1..n |-> 40]

FramerReady ==
    /\ phase = "ready"
    /\ stream = <<>>
    /\ tcp = <<>>
    /\ partial_buf = <<>>
    /\ use_large_sdu = TRUE
    /\ negotiated = TNS_VERSION_DESIRED
    /\ emitted = <<>>
    /\ sent = <<>>
    /\ connect_string = Descriptor(1)

\* no cursor has been opened
NoRowCursor ==
    [columns |-> <<>>, cursor_id |-> 0, buffer |-> <<>>, buffer_pos |-> 0,
     more_rows |-> FALSE, fetch_size |-> 0, rows_fetched |-> 0]
NoTable == [n |-> 0, cols |-> <<>>, id |-> 0, pos |-> 0]

RowCursorUnopened ==
    /\ rowcur = NoRowCursor
    /\ table = NoTable
    /\ fetches = <<>>
    /\ yielded = <<>>
    /\ ret = "none"
    /\ cpc = "unopened"

\* the FastAuth branch is not taken
NoSession == [verifier_type |-> 0, params |-> <<>>, combo_key |-> 0]
NoError == [kind |-> "none", code |-> 0]
FastAuthIdle ==
    /\ fa_pc = "idle"
    /\ fa_reply = <<>>
    /\ fa_rbuf = <<>>
    /\ fa_pos = 0
    /\ fa_session = NoSession
    /\ fa_err = NoError
    /\ fa_sent = <<>>
    /\ fa_reply2 = <<>>

\* connect_with_params has returned the connection
DialIdle ==
    /\ d_pc = "connected"
    /\ d_addrs = <<"accepts">>
    /\ d_next = 1
    /\ d_last_error = "none"
    /\ d_result = "Ok"
    /\ d_tried = <<1>>

\* nothing is being encoded
CodecIdle ==
    /\ cx_pc = "idle"
    /\ cx_in = <<>>
    /\ cx_wire = <<>>
    /\ cx_out = <<>>

SideIdle == FastAuthIdle /\ DialIdle /\ CodecIdle

Init == InitConn /\ FramerReady /\ RowCursorUnopened /\ SideIdle

Next ==
    \/ ExchangeDataTypes
    \/ read_data_packet
    \/ AuthRead
    \/ AuthMarkerLoop1
    \/ AuthMarkerLoop2
    \/ AuthMarkerPhase2
    \/ Query
    \/ OpenRowCursor
    \/ Fetch
    \/ DropCursor
    \/ ReadOuter
    \/ ReadInner
    \/ ServerAnswer
    \/ ServerBreak
    \/ ServerAfterReset
    \/ ServerDropReset
    \/ ServerForeignPacket

Spec == Init /\ [][Next]_vars

(* ---------------------------------------------------------------------- *)
(* Packet framing (src/src/protocol/packet.rs, message.rs)                 *)
(* ---------------------------------------------------------------------- *)
Min(a, b) == IF a < b THEN a ELSE b

\* write_u16_be / write_u32_be and from_be_bytes
U16BE(n) == <<(n \div 256) % 256, n % 256>>
U32BE(n) == <<(n \div 16777216) % 256, (n \div 65536) % 256, (n \div 256) % 256, n % 256>>
FromBE2(b) == b[1] * 256 + b[2]
FromBE4(b) == ((b[1] * 256 + b[2]) * 256 + b[3]) * 256 + b[4]

\* write_packet_header: the length field, then type, flags and two zero bytes
\* (`as u32` changes no size the model can build; `as u16` is kept)
write_packet_header(packet_type, packet_flags, total_size, large) ==
    (IF large THEN U32BE(total_size)
              ELSE U16BE(total_size % 65536) \o <<0, 0>>)
    \o <<packet_type, packet_flags, 0, 0>>

\* PacketStream::send_message: header and message in one buffer
send_message(packet_type, payload) ==
    write_packet_header(packet_type, 0, HEADER_SIZE + Len(payload), use_large_sdu)
    \o payload

\* PacketStream::send_data_message: header, the two data-flag bytes, message
send_data_message(msg) ==
    write_packet_header(TNS_PACKET_TYPE_DATA, 0, HEADER_SIZE + 2 + Len(msg),
                        use_large_sdu)
    \o <<0, 0>> \o msg

\* Packet::to_bytes: how a packet lies in the stream
to_bytes(p) ==
    write_packet_header(p.ptype, p.flags, HEADER_SIZE + Len(p.payload), p.large)
    \o p.payload

RECURSIVE Wire(_)
Wire(pkts) == IF pkts = <<>> THEN <<>> ELSE to_bytes(Head(pkts)) \o Wire(Tail(pkts))

\* read_packet, the length it takes from the buffered header
PacketLen(buf, large) ==
    IF large THEN FromBE4(buf) ELSE FromBE2(buf)

\* read_packet's two loops: another socket read is needed
NeedsBytes ==
    IF Len(partial_buf) < HEADER_SIZE THEN TRUE
    ELSE Len(partial_buf) < PacketLen(partial_buf, use_large_sdu)

\* variant: the buffer is cleared after a packet was taken from it
SurplusDropped(buf, n) == <<>>

\* split_to(packet_len): what stays in partial_buf
Surplus(buf, n) == SubSeq(buf, n + 1, Len(buf))

\* the Packet read_packet returns, with the header it parsed and the
\* version in force (for the properties)
Extracted ==
    LET n == PacketLen(partial_buf, use_large_sdu)
        packet_data == SubSeq(partial_buf, 1, n)
    IN  [packet_type |-> packet_data[5], packet_flags |-> packet_data[6],
         payload |-> SubSeq(packet_data, HEADER_SIZE + 1, n),
         len |-> n, hdr |-> SubSeq(packet_data, 1, 4), version |-> negotiated]

SentRec(bytes) == [bytes |-> bytes, version |-> negotiated]

\* ConnectMessage::connect_data_in_packet
connect_data_in_packet(cs) == Len(cs) <= TNS_MAX_CONNECT_DATA

\* ConnectMessage::write_to, cut down to the version desired, the length of
\* the connect data, and the connect data if it fits
ConnectMessage(cs) ==
    U16BE(TNS_VERSION_DESIRED) \o U16BE(Len(cs))
    \o (IF connect_data_in_packet(cs) THEN cs ELSE <<>>)

\* PacketStream::send_data: a DATA packet of the data flags and the bytes
send_data(data, data_flags) ==
    write_packet_header(TNS_PACKET_TYPE_DATA, 0, HEADER_SIZE + 2 + Len(data),
                        use_large_sdu)
    \o U16BE(data_flags) \o data

\* connect: the CONNECT packet, and the connect data in a DATA packet of
\* its own when it does not fit
ConnectSends(cs) ==
    <<send_message(TNS_PACKET_TYPE_CONNECT, ConnectMessage(cs))>>
    \o (IF ~ connect_data_in_packet(cs) THEN <<send_data(cs, 0)>> ELSE <<>>)

\* variant: only the CONNECT packet is sent again
ResendSendsConnectOnly(cs) ==
    <<send_message(TNS_PACKET_TYPE_CONNECT, ConnectMessage(cs))>>

\* connect, the RESEND arm: the same message and the same data again
ResendSends(cs) ==
    <<send_message(TNS_PACKET_TYPE_CONNECT, ConnectMessage(cs))>>
    \o (IF ~ connect_data_in_packet(cs) THEN <<send_data(cs, 0)>> ELSE <<>>)

\* the packets written, appended to the record of what was sent
Sent(pkts) == sent \o [i \in DOMAIN pkts |-> SentRec(pkts[i])]

(* ---------------------------------------------------------------------- *)
(* connect and handle_accept (src/src/protocol/connect.rs)                 *)
(* ---------------------------------------------------------------------- *)
\* variant: the 4-byte length starts one version later
UseLargeSduAbove(version) == version > TNS_VERSION_MIN_LARGE_SDU

\* handle_accept: the switch to 4-byte length fields
UseLargeSdu(version) == version >= TNS_VERSION_MIN_LARGE_SDU

\* variant: the protocol version is not looked at
handle_accept_any_version(p) ==
    LET protocol_version == FromBE2(p.payload)
        nsi_flags1 == p.payload[3]
    IN  IF (nsi_flags1 \div TNS_NSI_NA_REQUIRED) % 2 = 1
            THEN /\ phase' = "protocol_error"
                 /\ UNCHANGED <<use_large_sdu, negotiated>>
        ELSE /\ use_large_sdu' = UseLargeSdu(protocol_version)
             /\ negotiated' = protocol_version
             /\ phase' = "ready"

\* handle_accept on the ACCEPT packet p (payload: version, NSI flags)
handle_accept(p) ==
    LET protocol_version == FromBE2(p.payload)
        nsi_flags1 == p.payload[3]
    IN  IF protocol_version < TNS_VERSION_MIN_ACCEPTED
            THEN /\ phase' = "unsupported"
                 /\ UNCHANGED <<use_large_sdu, negotiated>>
        ELSE IF (nsi_flags1 \div TNS_NSI_NA_REQUIRED) % 2 = 1
            THEN /\ phase' = "protocol_error"
                 /\ UNCHANGED <<use_large_sdu, negotiated>>
        ELSE /\ use_large_sdu' = UseLargeSdu(protocol_version)
             /\ negotiated' = protocol_version
             /\ phase' = "ready"

\* connect: send the CONNECT packet
Connect ==
    /\ phase = "init"
    /\ sent' = Sent(ConnectSends(connect_string))
    /\ phase' = "connect_read"
    /\ UNCHANGED <<conn, rowc, side, stream, tcp, partial_buf, use_large_sdu, negotiated, emitted, connect_string>>

\* one socket read inside read_packet: some bytes, or 0 at end of stream
SocketRead ==
    /\ phase \in {"connect_read", "reading"}
    /\ NeedsBytes
    /\ IF tcp = <<>>
           THEN /\ phase' = "closed"
                /\ UNCHANGED <<tcp, partial_buf>>
           ELSE /\ \E n \in 1..Min(MaxChunk, Len(tcp)) :
                       /\ partial_buf' = partial_buf \o SubSeq(tcp, 1, n)
                       /\ tcp' = SubSeq(tcp, n + 1, Len(tcp))
                /\ phase' = phase
    /\ UNCHANGED <<conn, rowc, side, stream, use_large_sdu, negotiated, emitted, sent, connect_string>>

\* connect's loop: read_packet returns and the packet type is matched
ConnectReadPacket ==
    /\ phase = "connect_read"
    /\ ~NeedsBytes
    /\ IF PacketLen(partial_buf, use_large_sdu) < HEADER_SIZE
           THEN /\ phase' = "panic"
                /\ UNCHANGED <<partial_buf, use_large_sdu, negotiated, emitted, sent>>
           ELSE /\ partial_buf' = Surplus(partial_buf, PacketLen(partial_buf, use_large_sdu))
                /\ emitted' = Append(emitted, Extracted)
                /\ IF Extracted.packet_type = TNS_PACKET_TYPE_ACCEPT
                       THEN handle_accept(Extracted) /\ sent' = sent
                   ELSE IF Extracted.packet_type = TNS_PACKET_TYPE_RESEND
                       THEN /\ sent' = Sent(ResendSends(connect_string))
                            /\ UNCHANGED <<phase, use_large_sdu, negotiated>>
                   ELSE /\ phase' = "refused"
                        /\ UNCHANGED <<use_large_sdu, negotiated, sent>>
    /\ UNCHANGED <<conn, rowc, side, stream, tcp, connect_string>>

\* after ACCEPT: a caller sends a DATA message
SendData ==
    /\ phase = "ready"
    /\ Cardinality({i \in DOMAIN sent : sent[i].version # 0}) < MaxSends
    /\ sent' = Append(sent, SentRec(send_data_message(<<TNS_MSG_TYPE_PROTOCOL>>)))
    /\ UNCHANGED <<conn, rowc, side, phase, stream, tcp, partial_buf, use_large_sdu, negotiated, emitted, connect_string>>

\* after ACCEPT: a caller calls read_packet
CallReadPacket ==
    /\ phase = "ready"
    /\ phase' = "reading"
    /\ UNCHANGED <<conn, rowc, side, stream, tcp, partial_buf, use_large_sdu, negotiated, emitted, sent, connect_string>>

\* read_packet returns the packet at the head of partial_buf
ReadPacketReturns ==
    /\ phase = "reading"
    /\ ~NeedsBytes
    /\ IF PacketLen(partial_buf, use_large_sdu) < HEADER_SIZE
           THEN /\ phase' = "panic"
                /\ UNCHANGED <<partial_buf, emitted>>
           ELSE /\ partial_buf' = Surplus(partial_buf, PacketLen(partial_buf, use_large_sdu))
                /\ emitted' = Append(emitted, Extracted)
                /\ phase' = "ready"
    /\ UNCHANGED <<conn, rowc, side, stream, tcp, use_large_sdu, negotiated, sent, connect_string>>

(* ---------------------------------------------------------------------- *)
(* The server's byte stream                                                *)
(* ---------------------------------------------------------------------- *)
\* the sequences of at most hi elements of S
SeqsUpTo(S, hi) == UNION {[1..n -> S] : n \in 0..hi}

StreamPkt(ptype, payload, large) ==
    [ptype |-> ptype, flags |-> 0, payload |-> payload, large |-> large]

\* the protocol versions a server answers with
Versions == {TNS_VERSION_MIN_ACCEPTED - 1, TNS_VERSION_MIN_ACCEPTED, TNS_VERSION_DESIRED}

\* what ends the CONNECT exchange: ACCEPT (version, NSI flags) or REFUSE
Answers ==
    {StreamPkt(TNS_PACKET_TYPE_ACCEPT, U16BE(v) \o <<0>>, FALSE) : v \in Versions}
    \cup {StreamPkt(TNS_PACKET_TYPE_ACCEPT,
                    U16BE(TNS_VERSION_DESIRED) \o <<TNS_NSI_NA_REQUIRED>>, FALSE),
          StreamPkt(TNS_PACKET_TYPE_REFUSE, <<>>, FALSE)}

\* packets after ACCEPT, framed as the server frames for the version it sent
Later(large) ==
    {StreamPkt(TNS_PACKET_TYPE_DATA, <<0, 0, TNS_MSG_TYPE_PROTOCOL>>, large),
     StreamPkt(TNS_PACKET_TYPE_MARKER, <<1, 0, TNS_MARKER_TYPE_RESET>>, large),
     StreamPkt(TNS_PACKET_TYPE_CONTROL, <<0, TNS_MSG_TYPE_STATUS>>, large)}

Streams ==
    {first \o <<a>> \o rest :
        first \in SeqsUpTo({StreamPkt(TNS_PACKET_TYPE_RESEND, <<>>, FALSE)}, MaxResend),
        a \in Answers,
        rest \in UNION {[1..n -> Later(TRUE)] : n \in 0..MaxPkts}}

InitFramer ==
    /\ InitConn
    /\ RowCursorUnopened
    /\ SideIdle
    /\ phase = "init"
    /\ stream \in Streams
    /\ tcp = Wire(stream)
    /\ partial_buf = <<>>
    /\ use_large_sdu = FALSE
    /\ negotiated = 0
    /\ emitted = <<>>
    /\ sent = <<>>
    /\ connect_string \in {Descriptor(1), Descriptor(TNS_MAX_CONNECT_DATA),
                           Descriptor(TNS_MAX_CONNECT_DATA + 1)}

NextFramer ==
    \/ Connect
    \/ SocketRead
    \/ ConnectReadPacket
    \/ SendData
    \/ CallReadPacket
    \/ ReadPacketReturns

SpecFramer == InitFramer /\ [][NextFramer]_vars

(* ---------------------------------------------------------------------- *)
(* Cursor (src/src/cursor.rs)                                              *)
(* ---------------------------------------------------------------------- *)
\* rows the server can hold, the largest fetch size, rows per add_rows call
MaxRows == 5
MaxFetch == 3
MaxBatch == 2

\* rows first..last of a result set; a row is named by its number
RowsFrom(first, last) == [i \in 1..(last - first + 1) |-> first + i - 1]

\* Cursor::new
new(columns, cursor_id, rows, more_rows, fetch_size) ==
    [columns |-> columns, cursor_id |-> cursor_id, buffer |-> rows,
     buffer_pos |-> 0, more_rows |-> more_rows, fetch_size |-> fetch_size,
     rows_fetched |-> Len(rows)]

has_more(c) == c.buffer_pos < Len(c.buffer) \/ c.more_rows

\* variant: the flag is not looked at
is_exhausted_buffer_only(c) == c.buffer_pos >= Len(c.buffer)

is_exhausted(c) == c.buffer_pos >= Len(c.buffer) /\ ~c.more_rows

\* variant: the position moves on whether or not a row is left
take_buffered_unguarded(c) ==
    [row |-> IF c.buffer_pos < Len(c.buffer)
                 THEN <<c.buffer[c.buffer_pos + 1]>> ELSE <<>>,
     c |-> [c EXCEPT !.buffer_pos = @ + 1]]

\* take_buffered: Some(row) and the position moved on, or None; the Option
\* is a sequence of at most one row
take_buffered(c) ==
    IF c.buffer_pos < Len(c.buffer)
        THEN [row |-> <<c.buffer[c.buffer_pos + 1]>>,
              c |-> [c EXCEPT !.buffer_pos = @ + 1]]
        ELSE [row |-> <<>>, c |-> c]

\* drain_buffer: split_off(buffer_pos), clear, position 0
drain_buffer(c) ==
    [rows |-> SubSeq(c.buffer, c.buffer_pos + 1, Len(c.buffer)),
     c |-> [c EXCEPT !.buffer = <<>>, !.buffer_pos = 0]]

\* _clear_buffer
clear_buffer(c) == [c EXCEPT !.buffer = <<>>, !.buffer_pos = 0]

\* variant: a consumed buffer is emptied but the position is kept
add_rows_keeps_pos(c, rows, more_rows) ==
    LET b == IF c.buffer_pos >= Len(c.buffer) THEN <<>> ELSE c.buffer
    IN  [c EXCEPT !.buffer = b \o rows,
                  !.rows_fetched = @ + Len(rows),
                  !.more_rows = more_rows]

\* variant: the column list is replaced along with the rows
add_rows_drops_columns(c, rows, more_rows) ==
    LET d == IF c.buffer_pos >= Len(c.buffer)
                 THEN [c EXCEPT !.buffer = <<>>, !.buffer_pos = 0]
                 ELSE c
    IN  [d EXCEPT !.buffer = @ \o rows,
                  !.rows_fetched = @ + Len(rows),
                  !.more_rows = more_rows,
                  !.columns = <<>>]

\* variant: the buffer is cleared before every batch
add_rows_replaces_buffer(c, rows, more_rows) ==
    [c EXCEPT !.buffer = rows,
              !.buffer_pos = 0,
              !.rows_fetched = @ + Len(rows),
              !.more_rows = more_rows]

\* add_rows: a consumed buffer is cleared first, then the rows are appended
add_rows(c, rows, more_rows) ==
    LET d == IF c.buffer_pos >= Len(c.buffer)
                 THEN [c EXCEPT !.buffer = <<>>, !.buffer_pos = 0]
                 ELSE c
    IN  [d EXCEPT !.buffer = @ \o rows,
                  !.rows_fetched = @ + Len(rows),
                  !.more_rows = more_rows]

\* variant: a fetch is due whenever the buffer is consumed
needs_fetch_buffer_only(c) == c.buffer_pos >= Len(c.buffer)

needs_fetch(c) == c.buffer_pos >= Len(c.buffer) /\ c.more_rows

\* variant: the pair is built the other way round
fetch_params_swapped(c) == <<c.fetch_size, c.cursor_id>>

\* fetch_params: (cursor_id, fetch_size)
fetch_params(c) == <<c.cursor_id, c.fetch_size>>

(* ---------------------------------------------------------------------- *)
(* The Cursor struct under any sequence of calls                           *)
(* ---------------------------------------------------------------------- *)
Columns == {<<"A">>, <<"A", "B">>}
CursorIds == {TNS_MSG_TYPE_ROW_DATA, TNS_MSG_TYPE_STATUS}

TakeBuffered ==
    /\ cpc = "api"
    /\ LET t == take_buffered(rowcur)
       IN  /\ rowcur' = t.c
           /\ yielded' = yielded \o t.row
           /\ ret' = IF t.row = <<>> THEN "None" ELSE "Some"
    /\ UNCHANGED <<conn, framer, side, table, fetches, cpc>>

DrainBuffer ==
    /\ cpc = "api"
    /\ LET t == drain_buffer(rowcur)
       IN  /\ rowcur' = t.c
           /\ yielded' = yielded \o t.rows
           /\ ret' = "drained"
    /\ UNCHANGED <<conn, framer, side, table, fetches, cpc>>

ClearBuffer ==
    /\ cpc = "api"
    /\ rowcur' = clear_buffer(rowcur)
    /\ ret' = "cleared"
    /\ UNCHANGED <<conn, framer, side, table, fetches, yielded, cpc>>

\* add_rows with the next rows of the result set, any number up to MaxBatch
AddRows ==
    /\ cpc = "api"
    /\ \E k \in 0..MaxBatch : \E more \in BOOLEAN :
          /\ rowcur.rows_fetched + k <= MaxRows
          /\ rowcur' = add_rows(rowcur,
                                RowsFrom(rowcur.rows_fetched + 1,
                                         rowcur.rows_fetched + k), more)
    /\ ret' = "added"
    /\ UNCHANGED <<conn, framer, side, table, fetches, yielded, cpc>>

\* a Cursor just built by Cursor::new from a first batch
InitCursor ==
    /\ InitConn
    /\ FramerReady
    /\ SideIdle
    /\ \E cols \in Columns : \E id \in CursorIds : \E k \in 0..MaxBatch :
       \E more \in BOOLEAN : \E f \in 1..MaxFetch :
          /\ rowcur = new(cols, id, RowsFrom(1, k), more, f)
          /\ table = [n |-> k, cols |-> cols, id |-> id, pos |-> k]
    /\ fetches = <<>>
    /\ yielded = <<>>
    /\ ret = "none"
    /\ cpc = "api"

NextCursor ==
    \/ TakeBuffered
    \/ DrainBuffer
    \/ ClearBuffer
    \/ AddRows

SpecCursor == InitCursor /\ [][NextCursor]_vars

(* ---------------------------------------------------------------------- *)
(* A row cursor iterated to its end                                        *)
(* (src/src/connection.rs open_row_cursor, src/src/cursor.rs,              *)
(*  src/src/protocol/messages/fetch.rs; the iteration follows the cursor   *)
(*  state machine of the design, section 4.6)                              *)
(* ---------------------------------------------------------------------- *)
\* no cursor sends more FETCH messages than this
MaxFetches == MaxRows + 1
ORA_INVALID_CURSOR == 1000 + 1

\* FetchMessage::new
FetchMessage(params) == [cursor_id |-> params[1], fetch_size |-> params[2]]

\* the server hands out the next `size` rows of the result set; it reports
\* ORA-01403 when it ran out of rows before the batch was full
ServerRows(tb, size) == RowsFrom(tb.pos + 1, Min(tb.n, tb.pos + size))
ServerCode(tb, size) ==
    IF Len(ServerRows(tb, size)) < size THEN ORA_NO_DATA_FOUND ELSE 0

\* the response to the EXECUTE: DESCRIBE_INFO, the first rows, the ERROR
\* message with the cursor id
ServerExecute(tb, prefetch_rows) ==
    [columns |-> tb.cols, rows |-> ServerRows(tb, prefetch_rows),
     error_num |-> ServerCode(tb, prefetch_rows), cursor_id |-> tb.id]

\* the response to a FETCH; a cursor id the server never assigned is an error
ServerFetch(tb, msg) ==
    IF msg.cursor_id # tb.id
        THEN [rows |-> <<>>, error_num |-> ORA_INVALID_CURSOR]
        ELSE [rows |-> ServerRows(tb, msg.fetch_size),
              error_num |-> ServerCode(tb, msg.fetch_size)]

\* more_rows of a parsed response with this error number
MoreRows(error_num) ==
    SetMoreRows([error_num |-> error_num, more_rows |-> FALSE]).more_rows

\* Connection::open_row_cursor: EXECUTE with fetch_size as prefetch, the
\* check for Oracle errors, and the cursor built from the parsed response
OpenCursor ==
    /\ cpc = "unopened"
    /\ \E fetch_size \in 1..MaxFetch :
          LET r == ServerExecute(table, fetch_size)
          IN  IF IsOracleError(r.error_num)
                  THEN /\ cpc' = "failed"
                       /\ ret' = "error"
                       /\ UNCHANGED <<rowcur, table>>
                  ELSE /\ rowcur' = new(r.columns, r.cursor_id, r.rows,
                                        MoreRows(r.error_num), fetch_size)
                       /\ table' = [table EXCEPT !.pos = @ + Len(r.rows)]
                       /\ cpc' = "open"
                       /\ ret' = "opened"
    /\ UNCHANGED <<conn, framer, side, fetches, yielded>>

\* the caller asks for the next row and the cursor can answer from what it
\* holds: a buffered row, or end-of-stream with the cursor id set to 0
NextRow ==
    /\ cpc = "open"
    /\ LET t == take_buffered(rowcur)
       IN  IF t.row # <<>>
               THEN /\ rowcur' = t.c
                    /\ yielded' = yielded \o t.row
                    /\ ret' = "row"
               ELSE /\ is_exhausted(rowcur)
                    /\ rowcur' = [rowcur EXCEPT !.cursor_id = 0]
                    /\ ret' = "end"
                    /\ UNCHANGED yielded
    /\ UNCHANGED <<conn, framer, side, table, fetches, cpc>>

\* the buffer is consumed and the server has more: FETCH(cursor_id,
\* fetch_size), then the rows are appended and more_rows is updated
FetchMore ==
    /\ cpc = "open"
    /\ needs_fetch(rowcur)
    /\ Len(fetches) < MaxFetches
    /\ LET msg == FetchMessage(fetch_params(rowcur))
           r == ServerFetch(table, msg)
       IN  /\ fetches' = Append(fetches, [msg |-> msg, rows |-> Len(r.rows),
                                          error_num |-> r.error_num])
           /\ IF IsOracleError(r.error_num)
                  THEN /\ cpc' = "failed"
                       /\ ret' = "error"
                       /\ UNCHANGED <<rowcur, table>>
                  ELSE /\ rowcur' = add_rows(rowcur, r.rows, MoreRows(r.error_num))
                       /\ table' = [table EXCEPT !.pos = @ + Len(r.rows)]
                       /\ ret' = "fetched"
                       /\ UNCHANGED cpc
    /\ UNCHANGED <<conn, framer, side, yielded>>

\* a connection ready for a statement, and a result set of 0..MaxRows rows
InitRowCursor ==
    /\ InitConn
    /\ FramerReady
    /\ SideIdle
    /\ rowcur = NoRowCursor
    /\ \E n \in 0..MaxRows : \E cols \in Columns : \E id \in CursorIds :
          table = [n |-> n, cols |-> cols, id |-> id, pos |-> 0]
    /\ fetches = <<>>
    /\ yielded = <<>>
    /\ ret = "none"
    /\ cpc = "unopened"

NextRowCursor ==
    \/ OpenCursor
    \/ NextRow
    \/ FetchMore

SpecRowCursor == InitRowCursor /\ [][NextRowCursor]_vars

(* ---------------------------------------------------------------------- *)
(* FastAuth (src/src/protocol/connect.rs fast_auth)                        *)
(* ---------------------------------------------------------------------- *)
\* The response payload is a sequence of fields: one element per value the
\* parser reads with one call (a byte, a UB2/UB4 value, a length-prefixed
\* string), so a position in it is a position of the ReadBuffer.

\* variant: the client asks for its maximum field version
FastAuthFieldVersionMax == TNS_CCAP_FIELD_VERSION_MAX

\* the field version fast_auth asks for and takes as its own
FastAuthFieldVersion == TNS_CCAP_FIELD_VERSION_19_1_EXT_1

\* FastAuthMessage: the compile caps are a clone with the field version set
FastAuthMessage(c) ==
    [kind |-> "FAST_AUTH",
     compile_caps |-> [c.compile_caps EXCEPT !.field_version = FastAuthFieldVersion],
     runtime_caps |-> c.runtime_caps]

\* the ERROR message as the server composes it
ErrorInfo(call_status, error_num_hint, rowid, batch_errors, batch_offsets,
          actual_error_num) ==
    [t |-> TNS_MSG_TYPE_ERROR, call_status |-> call_status,
     error_num_hint |-> error_num_hint, rowid |-> rowid,
     batch_errors |-> batch_errors, batch_offsets |-> batch_offsets,
     actual_error_num |-> actual_error_num]
ParameterMsg(params) == [t |-> TNS_MSG_TYPE_PARAMETER, params |-> params]
Param(key, value, flags) == [key |-> key, value |-> value, flags |-> flags]

\* a capability array on the wire: the length byte, then the bytes
CapsFields(c, a, b) == IF c.len = 0 THEN <<TNS_NULL_LENGTH_INDICATOR>> ELSE <<c.len, a, b>>

RECURSIVE ParamFields(_)
ParamFields(ps) ==
    IF ps = <<>> THEN <<>>
    ELSE <<ps[1].key, ps[1].value, ps[1].flags>> \o ParamFields(Tail(ps))

\* the fields of one message, the type byte first
Fields(m) ==
    CASE m.t = TNS_MSG_TYPE_PROTOCOL ->
           <<m.t>> \o CapsFields(m.ccaps, m.ccaps.sql_version, m.ccaps.field_version)
                   \o CapsFields(m.rcaps, m.rcaps.compat, m.rcaps.ttc)
      [] m.t = TNS_MSG_TYPE_DATA_TYPES -> <<m.t, 1, 1, 0, 2, 0, 0>>
      [] m.t = TNS_MSG_TYPE_PARAMETER ->
           <<m.t, Len(m.params)>> \o ParamFields(m.params)
      [] m.t = TNS_MSG_TYPE_ERROR ->
           <<m.t, m.call_status, m.error_num_hint, Len(m.rowid)>> \o m.rowid
               \o <<0>>
               \o (IF m.batch_errors = <<>> THEN <<0>>
                   ELSE <<Len(m.batch_errors), 0>> \o m.batch_errors)
               \o <<Len(m.batch_offsets)>> \o m.batch_offsets
               \o <<m.actual_error_num, 0>>
               \o (IF m.actual_error_num # 0 THEN <<"ORA">> ELSE <<>>)
      [] OTHER -> <<m.t>>

RECURSIVE Payload(_)
Payload(msgs) == IF msgs = <<>> THEN <<>> ELSE Fields(msgs[1]) \o Payload(Tail(msgs))

\* a read at position i; past the end the read fails, which the callers
\* see as a next position beyond the buffer
Field(b, i) == IF i <= Len(b) THEN b[i] ELSE 0
Underrun(b, next) == next > Len(b) + 1

\* read_bytes_with_length of a capability array
ReadCaps(b, i) ==
    IF Field(b, i) = TNS_NULL_LENGTH_INDICATOR
        THEN [some |-> FALSE, len |-> 0, a |-> 0, b |-> 0, next |-> i + 1]
        ELSE [some |-> TRUE, len |-> Field(b, i), a |-> Field(b, i + 1),
              b |-> Field(b, i + 2), next |-> i + 3]

\* the DATA_TYPES loop: pairs up to a zero data type, four more bytes (one
\* field) after a non-zero conversion type
RECURSIVE SkipDataTypes(_, _)
SkipDataTypes(b, i) ==
    IF i > Len(b) THEN i + 1
    ELSE IF b[i] = 0 THEN i + 1
    ELSE IF Field(b, i + 1) # 0 THEN SkipDataTypes(b, i + 3)
    ELSE SkipDataTypes(b, i + 2)

\* SessionData.params.insert
Insert(params, key, value) ==
    [k \in DOMAIN params \cup {key} |-> IF k = key THEN value ELSE params[k]]

\* the PARAMETER loop of fast_auth
RECURSIVE ReadParams(_, _, _, _)
ReadParams(b, i, n, s) ==
    IF n = 0 \/ i > Len(b) THEN [next |-> IF n = 0 THEN i ELSE i + 1, session |-> s]
    ELSE LET key == b[i]
             value == Field(b, i + 1)
             flags == Field(b, i + 2)
         IN  ReadParams(b, i + 3, n - 1,
                 [s EXCEPT !.verifier_type = IF key = "AUTH_VFR_DATA" THEN flags ELSE @,
                           !.params = Insert(@, key, value)])

\* the walk over the ERROR message, from the field after its type byte
ReadErrorInfo(b, i) ==
    LET rowid_len == Field(b, i + 2)
        p1 == i + 3 + (IF rowid_len > 0 /\ rowid_len # 255 THEN rowid_len ELSE 0)
        oerrdd_len == Field(b, p1)
        p2 == p1 + 1 + (IF oerrdd_len > 0 THEN 1 + Field(b, p1 + 1) ELSE 0)
        batch_error_count == Field(b, p2)
        p3 == p2 + 1 + (IF batch_error_count > 0 THEN 1 + batch_error_count ELSE 0)
        batch_offset_count == Field(b, p3)
        p4 == p3 + 1 + batch_offset_count
    IN  [call_status |-> Field(b, i), error_num_hint |-> Field(b, i + 1),
         actual_error_num |-> Field(b, p4), next |-> p4 + 2]

\* variant: any non-zero status field makes the message an error
ErrorInfoFailsOnStatus(e) ==
    e.call_status # 0 \/ e.error_num_hint # 0 \/ e.actual_error_num # 0

\* if actual_error_num != 0
ErrorInfoFails(e) == e.actual_error_num # 0

FaError(kind, code) == [kind |-> kind, code |-> code]

\* connect_with_params takes the FastAuth branch: fast_auth sets the field
\* version and sends the FastAuth message
FastAuthSend ==
    /\ fa_pc = "start"
    /\ caps.supports_fast_auth
    /\ caps' = [caps EXCEPT !.ttc_field_version = FastAuthFieldVersion]
    /\ fa_sent' = Append(fa_sent, FastAuthMessage(caps))
    /\ fa_pc' = "sent"
    /\ UNCHANGED <<conn_io, framer, rowc, dial, codec, fa_reply, fa_rbuf, fa_pos, fa_session, fa_err,
                   fa_reply2>>

\* one message of the while loop over the response
FastAuthLoop ==
    /\ fa_pc = "loop"
    /\ LET b == fa_rbuf
           i == fa_pos
           Ok == /\ fa_pc' = "phase2"
                 /\ UNCHANGED <<caps, fa_pos, fa_session, fa_err>>
           Fail(e) == /\ fa_pc' = "failed"
                      /\ fa_err' = e
                      /\ UNCHANGED <<caps, fa_pos, fa_session>>
           Goes(next, c, s) ==
               IF Underrun(b, next) THEN Fail(FaError("BufferTooSmall", 0))
               ELSE /\ fa_pc' = "loop"
                    /\ fa_pos' = next
                    /\ caps' = c
                    /\ fa_session' = s
                    /\ UNCHANGED fa_err
       IN  IF i > Len(b) THEN Ok
           ELSE CASE b[i] = TNS_MSG_TYPE_PROTOCOL ->
                       LET cc == ReadCaps(b, i + 1)
                           rc == ReadCaps(b, cc.next)
                           c1 == IF cc.some
                                     THEN adjust_for_server_caps(caps,
                                              CompileCaps(cc.len, cc.a, cc.b), NoRuntimeCaps)
                                     ELSE caps
                           c2 == IF rc.some
                                     THEN adjust_for_server_caps(c1, NoCompileCaps,
                                              RuntimeCaps(rc.len, rc.a, rc.b))
                                     ELSE c1
                       IN  Goes(rc.next, c2, fa_session)
                  [] b[i] = TNS_MSG_TYPE_DATA_TYPES ->
                       Goes(SkipDataTypes(b, i + 1), caps, fa_session)
                  [] b[i] = TNS_MSG_TYPE_PARAMETER ->
                       LET r == ReadParams(b, i + 2, Field(b, i + 1), fa_session)
                       IN  Goes(r.next, caps, r.session)
                  [] b[i] = TNS_MSG_TYPE_ERROR ->
                       LET e == ReadErrorInfo(b, i + 1)
                       IN  IF Underrun(b, e.next) THEN Fail(FaError("BufferTooSmall", 0))
                           ELSE IF ErrorInfoFails(e)
                               THEN IF Underrun(b, e.next + 1)
                                        THEN Fail(FaError("BufferTooSmall", 0))
                                        ELSE Fail(FaError("Oracle", e.actual_error_num))
                           ELSE Goes(e.next, caps, fa_session)
                  [] b[i] = TNS_MSG_TYPE_END_OF_RESPONSE -> Ok
                  [] OTHER -> Ok
    /\ UNCHANGED <<conn_io, framer, rowc, dial, codec, fa_reply, fa_rbuf, fa_sent, fa_reply2>>

(* ---------------------------------------------------------------------- *)
(* The server's FastAuth response                                          *)
(* ---------------------------------------------------------------------- *)
FastAuthParams ==
    ParameterMsg(<<Param("AUTH_SESSKEY", 1, 0),
                   Param("AUTH_VFR_DATA", 2, TNS_VERIFIER_TYPE_12C)>>)

\* status fields and arrays in every combination with the error number
FastAuthErrorInfos ==
    {ErrorInfo(cs, hint, rowid, <<>>, offs, num) :
        cs \in {0, 1}, hint \in {0, ORA_LOGON_DENIED},
        rowid \in {<<>>, <<ORA_LOGON_DENIED>>},
        offs \in SeqsUpTo({ORA_LOGON_DENIED}, MaxOffsets),
        num \in {0, ORA_LOGON_DENIED}}
    \cup {ErrorInfo(0, 0, <<>>, <<ORA_LOGON_DENIED>>, <<>>, num) :
            num \in {0, ORA_LOGON_DENIED}}

\* PROTOCOL, DATA_TYPES, PARAMETER and ERROR in the server's order, with or
\* without END_OF_RESPONSE, and with a message of a type the client does
\* not know at the head, before the ERROR message, or nowhere
FastAuthBodies ==
    {u1 \o <<p, Plain(TNS_MSG_TYPE_DATA_TYPES), FastAuthParams>> \o u2 \o <<e>> \o eor :
        u1 \in {<<>>, <<Plain(MSG_TYPE_UNKNOWN)>>},
        u2 \in {<<>>, <<Plain(MSG_TYPE_UNKNOWN)>>},
        p \in ServerProtocolMsgs, e \in FastAuthErrorInfos,
        eor \in {<<>>, <<Plain(TNS_MSG_TYPE_END_OF_RESPONSE)>>}}

FastAuthReplies ==
    {[ptype |-> TNS_PACKET_TYPE_DATA, msgs |-> m] : m \in FastAuthBodies}
    \cup {[ptype |-> TNS_PACKET_TYPE_MARKER, msgs |-> <<>>]}

\* read_packet after the send: the response must be a DATA packet
FastAuthRead ==
    /\ fa_pc = "sent"
    /\ \E r \in FastAuthReplies :
          /\ fa_reply' = r.msgs
          /\ IF r.ptype # TNS_PACKET_TYPE_DATA
                 THEN /\ fa_pc' = "failed"
                      /\ fa_err' = FaError("UnexpectedPacketType", r.ptype)
                      /\ UNCHANGED <<fa_rbuf, fa_pos>>
                 ELSE /\ fa_pc' = "loop"
                      /\ fa_rbuf' = Payload(r.msgs)
                      /\ fa_pos' = 1
                      /\ UNCHANGED fa_err
    /\ UNCHANGED <<conn, framer, rowc, dial, codec, fa_session, fa_sent, fa_reply2>>

(* ---------------------------------------------------------------------- *)
(* phase_two and parse_auth_response (src/src/protocol/auth.rs)            *)
(* ---------------------------------------------------------------------- *)
\* b"SERVER_TO_CLIENT"
SERVER_TO_CLIENT == <<83, 69, 82, 86, 69, 82, 95, 84, 79, 95, 67, 76, 73, 69, 78, 84>>

\* Keys are named by numbers. A ciphertext is kept as the key it was made
\* with and the plaintext under it; a hex string as whether it is well
\* formed and the bytes it stands for.
ClientComboKey == 1
OtherKey == 2
Cipher(key, plain) == [key |-> key, plain |-> plain]
Hex(ok, bytes) == [ok |-> ok, bytes |-> bytes]

\* hex_to_bytes: None for an odd length or a character that is no hex digit
hex_to_bytes(h) == [some |-> h.ok, bytes |-> h.bytes]

\* decrypt_cbc without padding: a length that is no multiple of the block
\* size makes decrypt_padded_mut fail and the expect panic; under another
\* key the blocks come out as other bytes
decrypt_cbc(key, c) ==
    IF Len(c.plain) % AES_BLOCK # 0 THEN [panic |-> TRUE, bytes |-> <<>>]
    ELSE [panic |-> FALSE,
          bytes |-> IF c.key = key THEN c.plain
                    ELSE [i \in 1..Len(c.plain) |-> (c.plain[i] + key + c.key) % 256]]

\* variant: the text is looked for at the head of the plaintext
ServerResponseOkAtHead(decrypted) ==
    ~ (Len(decrypted) < 2 * AES_BLOCK
       \/ SubSeq(decrypted, 1, AES_BLOCK) # SERVER_TO_CLIENT)

\* decrypted.len() >= 32 && decrypted[16..32] == b"SERVER_TO_CLIENT"
ServerResponseOk(decrypted) ==
    ~ (Len(decrypted) < 2 * AES_BLOCK
       \/ SubSeq(decrypted, AES_BLOCK + 1, 2 * AES_BLOCK) # SERVER_TO_CLIENT)

\* generate_verifier: the verifier data and a known verifier type are needed
generate_verifier(s) ==
    IF "AUTH_VFR_DATA" \notin DOMAIN s.params
        THEN FaError("Protocol", 0)
    ELSE IF s.verifier_type \notin {TNS_VERIFIER_TYPE_12C, TNS_VERIFIER_TYPE_11G_1,
                                    TNS_VERIFIER_TYPE_11G_2}
        THEN FaError("UnsupportedVerifierType", s.verifier_type)
    ELSE NoError

\* parse_auth_response: the first message decides; PARAMETER gives the
\* parameters, ERROR the server's error, STATUS the parameters that follow
\* it if any, and any other type an empty session
parse_auth_response(msgs) ==
    LET m == msgs[1]
        b == Payload(msgs)
    IN  CASE m.t = TNS_MSG_TYPE_PARAMETER ->
               [err |-> NoError,
                session |-> ReadParams(b, 3, Field(b, 2), NoSession).session]
          [] m.t = TNS_MSG_TYPE_ERROR ->
               [err |-> FaError("Oracle", m.actual_error_num), session |-> NoSession]
          [] m.t = TNS_MSG_TYPE_STATUS ->
               [err |-> NoError,
                session |-> IF Field(b, 3) = TNS_MSG_TYPE_PARAMETER
                                THEN ReadParams(b, 5, Field(b, 4), NoSession).session
                                ELSE NoSession]
          [] OTHER -> [err |-> NoError, session |-> NoSession]

\* the check of AUTH_SVR_RESPONSE in phase_two
VerifyServerResponse(combo_key, response_session) ==
    IF "AUTH_SVR_RESPONSE" \notin DOMAIN response_session.params THEN "ok"
    ELSE LET encoded == hex_to_bytes(response_session.params["AUTH_SVR_RESPONSE"])
         IN  IF ~ encoded.some THEN "Protocol"
             ELSE LET decrypted == decrypt_cbc(combo_key, encoded.bytes)
                  IN  IF decrypted.panic THEN "panic"
                      ELSE IF ServerResponseOk(decrypted.bytes) THEN "ok"
                      ELSE "InvalidServerResponse"

\* what the server may send as AUTH_SVR_RESPONSE
Filler == [i \in 1..AES_BLOCK |-> i]
ServerResponses ==
    {Hex(TRUE, Cipher(ClientComboKey, Filler \o SERVER_TO_CLIENT)),
     Hex(TRUE, Cipher(ClientComboKey, Filler \o SERVER_TO_CLIENT \o Filler)),
     Hex(TRUE, Cipher(ClientComboKey, SERVER_TO_CLIENT \o Filler)),
     Hex(TRUE, Cipher(OtherKey, Filler \o SERVER_TO_CLIENT)),
     Hex(TRUE, Cipher(ClientComboKey, SERVER_TO_CLIENT)),
     Hex(TRUE, Cipher(ClientComboKey, Filler \o SERVER_TO_CLIENT \o <<0>>)),
     Hex(FALSE, Cipher(ClientComboKey, Filler \o SERVER_TO_CLIENT))}

\* the server's phase-two replies
PhaseTwoBodies ==
    {<<ParameterMsg(<<Param("AUTH_VERSION_NO", 1, 0)>>)>>,
     <<Plain(TNS_MSG_TYPE_STATUS)>>,
     <<ErrorInfo(0, ORA_LOGON_DENIED, <<>>, <<>>, <<>>, ORA_LOGON_DENIED)>>,
     <<Plain(MSG_TYPE_UNKNOWN)>>,
     <<Plain(MSG_TYPE_UNKNOWN),
       ErrorInfo(0, ORA_LOGON_DENIED, <<>>, <<>>, <<>>, ORA_LOGON_DENIED)>>}
    \cup {<<ParameterMsg(<<Param("AUTH_VERSION_NO", 1, 0),
                           Param("AUTH_SVR_RESPONSE", v, 0)>>)>> : v \in ServerResponses}
    \cup {<<Plain(TNS_MSG_TYPE_STATUS),
            ParameterMsg(<<Param("AUTH_SVR_RESPONSE", v, 0)>>)>> : v \in ServerResponses}

PhaseTwoReplies ==
    {[ptype |-> TNS_PACKET_TYPE_DATA, msgs |-> m] : m \in PhaseTwoBodies}
    \cup {[ptype |-> TNS_PACKET_TYPE_CONTROL, msgs |-> <<>>]}

\* phase_two after fast_auth returned Ok: the verifier, the phase-two
\* message, the reply, and the check of the server's response
PhaseTwo ==
    /\ fa_pc = "phase2"
    /\ LET v == generate_verifier(fa_session)
       IN  IF v # NoError
               THEN /\ fa_pc' = "refused"
                    /\ fa_err' = v
                    /\ UNCHANGED <<fa_session, fa_sent, fa_reply2>>
               ELSE \E r \in PhaseTwoReplies :
                      LET p == parse_auth_response(r.msgs)
                          check == VerifyServerResponse(ClientComboKey, p.session)
                          Refuse(e) == /\ fa_pc' = "refused"
                                       /\ fa_err' = e
                                       /\ fa_session' =
                                            [fa_session EXCEPT !.combo_key = ClientComboKey]
                      IN  /\ fa_sent' = Append(fa_sent, [kind |-> "AUTH_PHASE_TWO"])
                          /\ fa_reply2' = r.msgs
                          /\ IF r.ptype # TNS_PACKET_TYPE_DATA
                                 THEN Refuse(FaError("UnexpectedPacketType", r.ptype))
                             ELSE IF p.err # NoError THEN Refuse(p.err)
                             ELSE IF check = "panic"
                                 THEN /\ fa_pc' = "panicked"
                                      /\ fa_session' =
                                           [fa_session EXCEPT !.combo_key = ClientComboKey]
                                      /\ UNCHANGED fa_err
                             ELSE IF check # "ok" THEN Refuse(FaError(check, 0))
                             ELSE /\ fa_pc' = "connected"
                                  /\ fa_session' =
                                       [fa_session EXCEPT
                                          !.combo_key = ClientComboKey,
                                          !.params = [k \in DOMAIN @ \cup DOMAIN p.session.params |->
                                                        IF k \in DOMAIN p.session.params
                                                            THEN p.session.params[k] ELSE @[k]]]
                                  /\ UNCHANGED fa_err
    /\ UNCHANGED <<conn, framer, rowc, dial, codec, fa_reply, fa_rbuf, fa_pos>>

InitFastAuth ==
    /\ ConnBuilt
    /\ FramerReady
    /\ RowCursorUnopened
    /\ DialIdle
    /\ CodecIdle
    /\ \E eor \in BOOLEAN :
          caps = adjust_for_protocol(NewCapabilities, TNS_VERSION_DESIRED,
                                     Flags2(TRUE, eor))
    /\ fa_pc = "start"
    /\ fa_reply = <<>>
    /\ fa_rbuf = <<>>
    /\ fa_pos = 0
    /\ fa_session = NoSession
    /\ fa_err = NoError
    /\ fa_sent = <<>>
    /\ fa_reply2 = <<>>

NextFastAuth ==
    \/ FastAuthSend
    \/ FastAuthRead
    \/ FastAuthLoop
    \/ PhaseTwo

SpecFastAuth == InitFastAuth /\ [][NextFastAuth]_vars

(* ---------------------------------------------------------------------- *)
(* Connection::connect_with_params: the resolved addresses                  *)
(* (src/src/connection.rs)                                                 *)
(* ---------------------------------------------------------------------- *)
\* how a TCP connect to an address ends: the listener accepts, the connect
\* fails with an I/O error (refused, unreachable), or the deadline passes
ConnectEnds == {"accepts", "io_error", "timeout"}

\* what the handshake and the authentication end with once TCP is up
HandshakeEnds == {"Ok", "Refused", "Oracle"}

\* step 1: lookup_host under the deadline
Lookup ==
    /\ d_pc = "lookup"
    /\ \/ /\ d_pc' = "failed"
          /\ d_result' \in {"ConnectionTimeout", "DnsResolutionFailed", "Io"}
          /\ UNCHANGED d_addrs
       \/ /\ d_addrs' \in SeqsUpTo(ConnectEnds, MaxAddrs)
          /\ d_pc' = "dialing"
          /\ UNCHANGED d_result
    /\ UNCHANGED <<conn, framer, rowc, fauth, codec, d_next, d_last_error, d_tried>>

\* the Err(_) arm of the match: the deadline passed
DialTimeout ==
    /\ d_pc' = "failed"
    /\ d_result' = "ConnectionTimeout"
    /\ UNCHANGED <<d_next, d_last_error>>

\* step 2: one turn of the for loop over the addresses, or its end
Dial ==
    /\ d_pc = "dialing"
    /\ IF d_next > Len(d_addrs)
           THEN /\ d_pc' = "failed"
                /\ d_result' = IF d_last_error = "none" THEN "DnsResolutionFailed"
                               ELSE d_last_error
                /\ UNCHANGED <<d_next, d_last_error, d_tried>>
           ELSE /\ d_tried' = Append(d_tried, d_next)
                /\ CASE d_addrs[d_next] = "accepts" ->
                          /\ d_pc' = "handshake"
                          /\ UNCHANGED <<d_next, d_last_error, d_result>>
                     [] d_addrs[d_next] = "io_error" ->
                          /\ d_last_error' = "Io"
                          /\ d_next' = d_next + 1
                          /\ UNCHANGED <<d_pc, d_result>>
                     [] d_addrs[d_next] = "timeout" -> DialTimeout
    /\ UNCHANGED <<conn, framer, rowc, fauth, codec, d_addrs>>

\* connect, then FastAuth or data types and authentication, on the stream
\* that was opened: an error of theirs is returned, a success is the
\* connection
Handshake ==
    /\ d_pc = "handshake"
    /\ \E h \in HandshakeEnds :
          /\ d_result' = h
          /\ d_pc' = IF h = "Ok" THEN "connected" ELSE "failed"
    /\ UNCHANGED <<conn, framer, rowc, fauth, codec, d_addrs, d_next, d_last_error, d_tried>>

InitDial ==
    /\ InitConn
    /\ FramerReady
    /\ RowCursorUnopened
    /\ FastAuthIdle
    /\ CodecIdle
    /\ d_pc = "lookup"
    /\ d_addrs = <<>>
    /\ d_next = 1
    /\ d_last_error = "none"
    /\ d_result = "none"
    /\ d_tried = <<>>

NextDial ==
    \/ Lookup
    \/ Dial
    \/ Handshake

SpecDial == InitDial /\ [][NextDial]_vars

(* ---------------------------------------------------------------------- *)
(* UB2 / UB4 / UB8 and length-prefixed bytes                               *)
(* (src/src/protocol/buffer.rs, message.rs)                                *)
(* ---------------------------------------------------------------------- *)
\* An integer of w bytes is kept as its w bytes, most significant first,
\* so that u32 and u64 keep their width: to_be_bytes is the sequence
\* itself, to_le_bytes its reverse, and (val << 8) | b drops the first
\* byte and appends b.
Zero(w) == [i \in 1..w |-> 0]
to_le_bytes(v) == [i \in 1..Len(v) |-> v[Len(v) + 1 - i]]
ShiftIn(v, byte) == Tail(v) \o <<byte>>

\* leading_zeros() / 8
RECURSIVE LeadingZeroBytes(_)
LeadingZeroBytes(v) ==
    IF v = <<>> THEN 0
    ELSE IF v[1] # 0 THEN 0
    ELSE 1 + LeadingZeroBytes(Tail(v))

\* a length as u32, and a u32 as a length; no buffer has 2^31 bytes
FromLength(n) == <<(n \div 16777216) % 256, (n \div 65536) % 256, (n \div 256) % 256, n % 256>>
ToLength(v) == ((v[1] * 256 + v[2]) * 256 + v[3]) * 256 + v[4]
TooLong(v) == v[1] >= 128

\* WriteBuffer::write_ub2
WriteBuffer_write_ub2(v) ==
    IF v = Zero(2) THEN <<0>>
    ELSE IF v[1] = 0 THEN <<1, v[2]>>
    ELSE <<2, v[2], v[1]>>

\* WriteBuffer::write_ub4 and write_ub8: the first len bytes of to_le_bytes
WriteBuffer_write_ub(v) ==
    IF v = Zero(Len(v)) THEN <<0>>
    ELSE LET len == Len(v) - LeadingZeroBytes(v)
         IN  <<len>> \o SubSeq(to_le_bytes(v), 1, len)

\* WriteExt::write_ub2 for Vec<u8>
WriteExt_write_ub2(v) ==
    IF v = Zero(2) THEN <<0>>
    ELSE IF v[1] = 0 THEN <<1, v[2]>>
    ELSE <<2, v[1], v[2]>>

\* WriteExt::write_ub4 and write_ub8: to_be_bytes without the leading zeros
WriteExt_write_ub(v) ==
    IF v = Zero(Len(v)) THEN <<0>>
    ELSE LET leading == LeadingZeroBytes(v)
         IN  <<Len(v) - leading>> \o SubSeq(v, leading + 1, Len(v))

\* what a read returns: a value and the next position, or an error
Read(val, next) == [err |-> "none", val |-> val, next |-> next]
ReadErr(e) == [err |-> e, val |-> <<>>, next |-> 0]

\* the loop of read_ub4 / read_ub8 over the n bytes from position i
RECURSIVE Accumulate(_, _, _, _)
Accumulate(b, i, n, val) ==
    IF n = 0 THEN val ELSE Accumulate(b, i + 1, n - 1, ShiftIn(val, b[i]))

\* ReadBuffer::read_ub2 at position i
read_ub2(b, i) ==
    IF i > Len(b) THEN ReadErr("BufferTooSmall")
    ELSE IF b[i] = 0 THEN Read(Zero(2), i + 1)
    ELSE IF b[i] = 1
        THEN IF i + 1 > Len(b) THEN ReadErr("BufferTooSmall")
             ELSE Read(<<0, b[i + 1]>>, i + 2)
    ELSE IF b[i] = 2
        THEN IF i + 2 > Len(b) THEN ReadErr("BufferTooSmall")
             ELSE Read(<<b[i + 1], b[i + 2]>>, i + 3)
    ELSE ReadErr("Protocol")

\* ReadBuffer::read_ub4 (w = 4) and read_ub8 (w = 8) at position i
read_ub(b, i, w) ==
    IF i > Len(b) THEN ReadErr("BufferTooSmall")
    ELSE IF b[i] = 0 THEN Read(Zero(w), i + 1)
    ELSE IF b[i] >= 128 \/ b[i] > w THEN ReadErr("Protocol")
    ELSE IF i + b[i] > Len(b) THEN ReadErr("BufferTooSmall")
    ELSE Read(Accumulate(b, i + 1, b[i], Zero(w)), i + 1 + b[i])

\* ReadBuffer::skip_ub4 at position i: the length byte, then that many bytes
skip_ub4(b, i) ==
    IF i > Len(b) THEN ReadErr("BufferTooSmall")
    ELSE IF b[i] = 0 THEN Read(<<>>, i + 1)
    ELSE IF i + b[i] > Len(b) THEN ReadErr("BufferTooSmall")
    ELSE Read(<<>>, i + 1 + b[i])

\* the chunk size of the long form
CHUNK == 65536

\* the chunks of write_bytes_with_length, each after its length as UB4
RECURSIVE WriteBuffer_chunks(_, _)
WriteBuffer_chunks(bytes, offset) ==
    IF offset >= Len(bytes) THEN WriteBuffer_write_ub(FromLength(0))
    ELSE LET chunk_len == Min(Len(bytes) - offset, CHUNK)
         IN  WriteBuffer_write_ub(FromLength(chunk_len))
             \o SubSeq(bytes, offset + 1, offset + chunk_len)
             \o WriteBuffer_chunks(bytes, offset + chunk_len)

\* WriteBuffer::write_bytes_with_length
WriteBuffer_write_bytes_with_length(bytes) ==
    IF Len(bytes) = 0 THEN <<0>>
    ELSE IF Len(bytes) < TNS_LONG_LENGTH_INDICATOR THEN <<Len(bytes)>> \o bytes
    ELSE <<TNS_LONG_LENGTH_INDICATOR>> \o WriteBuffer_chunks(bytes, 0)

RECURSIVE WriteExt_chunks(_, _)
WriteExt_chunks(bytes, offset) ==
    IF offset >= Len(bytes) THEN WriteExt_write_ub(FromLength(0))
    ELSE LET chunk_len == Min(Len(bytes) - offset, CHUNK)
         IN  WriteExt_write_ub(FromLength(chunk_len))
             \o SubSeq(bytes, offset + 1, offset + chunk_len)
             \o WriteExt_chunks(bytes, offset + chunk_len)

\* WriteExt::write_bytes_with_length for Vec<u8>
WriteExt_write_bytes_with_length(bytes) ==
    IF Len(bytes) = 0 THEN <<0>>
    ELSE IF Len(bytes) < TNS_LONG_LENGTH_INDICATOR THEN <<Len(bytes)>> \o bytes
    ELSE <<TNS_LONG_LENGTH_INDICATOR>> \o WriteExt_chunks(bytes, 0)

\* Option<Bytes>
None == [err |-> "none", some |-> FALSE, bytes |-> <<>>]
Some(bytes) == [err |-> "none", some |-> TRUE, bytes |-> bytes]
BytesErr(e) == [err |-> e, some |-> FALSE, bytes |-> <<>>]

\* the chunk loop of read_bytes_with_length from position i
RECURSIVE ReadChunks(_, _, _)
ReadChunks(b, i, result) ==
    LET chunk_len == read_ub(b, i, 4)
    IN  IF chunk_len.err # "none" THEN BytesErr(chunk_len.err)
        ELSE IF chunk_len.val = Zero(4) THEN Some(result)
        ELSE IF TooLong(chunk_len.val) THEN BytesErr("BufferTooSmall")
        ELSE IF chunk_len.next + ToLength(chunk_len.val) - 1 > Len(b)
            THEN BytesErr("BufferTooSmall")
        ELSE ReadChunks(b, chunk_len.next + ToLength(chunk_len.val),
                        result \o SubSeq(b, chunk_len.next,
                                         chunk_len.next + ToLength(chunk_len.val) - 1))

\* ReadBuffer::read_bytes_with_length at the head of b
read_bytes_with_length(b) ==
    IF b = <<>> THEN BytesErr("BufferTooSmall")
    ELSE IF b[1] = TNS_NULL_LENGTH_INDICATOR THEN None
    ELSE IF b[1] = TNS_LONG_LENGTH_INDICATOR THEN ReadChunks(b, 2, <<>>)
    ELSE IF 1 + b[1] > Len(b) THEN BytesErr("BufferTooSmall")
    ELSE Some(SubSeq(b, 2, 1 + b[1]))

\* the values and slices written: every byte pattern over a few byte
\* values for the integers, slices of the lengths around the short form,
\* the long form and the chunk size
ByteValues == {0, 1, 255}
WideByteValues == {0, 255}
SliceLengths == {0, 1, 100, 252, 253, 254, CHUNK - 1, CHUNK}
SliceSeeds == {0, 7}
Slice(n, seed) == [i \in 1..n |-> (i * 7 + seed) % 256]
Writers == {"WriteBuffer", "WriteExt"}

CodecInputs ==
    {[kind |-> "ub2", writer |-> w, v |-> v] : w \in Writers, v \in [1..2 -> ByteValues]}
    \cup {[kind |-> "ub4", writer |-> w, v |-> v] : w \in Writers, v \in [1..4 -> ByteValues]}
    \cup {[kind |-> "ub8", writer |-> w, v |-> v] : w \in Writers, v \in [1..8 -> WideByteValues]}
    \cup {[kind |-> "bytes", writer |-> w, v |-> Slice(n, s)] :
             w \in Writers, n \in SliceLengths, s \in SliceSeeds}

\* bytes a server wrote, handed to one of the readers: a length byte of
\* every kind (zero, valid, one above each nominal maximum, with the sign
\* bit, 0xFF) before some, enough or no bytes
LengthBytes == {0, 1, 2, 3, 4, 5, 8, 9, 128, 255}
Readers == {"read_ub2", "read_ub4", "read_ub8", "skip_ub4", "read_bytes_with_length"}
ServerWires == {<<l>> \o Slice(n, 0) : l \in LengthBytes, n \in {0, 9, 255}}
ReaderInputs ==
    {[kind |-> r, writer |-> "server", v |-> b] : r \in Readers, b \in ServerWires}

\* decode_oracle_date (decode/date.rs).  The fields are u8: `data[0] - 100`
\* and `data[4] - 1` below their subtrahend panic where the build checks
\* arithmetic overflow (the dev profile) and wrap modulo 256 where it does
\* not (the release profile).
Overflows(a, b) == a < b
WrappingSub(a, b) == (a - b + 256) % 256
IsLeap(year) == year % 4 = 0 /\ (year % 100 # 0 \/ year % 400 = 0)
DaysInMonth(year, month) ==
    CASE month = 2 -> IF IsLeap(year) THEN 29 ELSE 28
      [] month \in {4, 6, 9, 11} -> 30
      [] OTHER -> 31
DateTime(fields) == [err |-> "none", val |-> fields]
DateErr(e) == [err |-> e, val |-> <<>>]
decode_oracle_date(data, overflow_checks) ==
    IF Len(data) # 7 THEN DateErr("Protocol")
    ELSE IF overflow_checks /\ (\/ Overflows(data[1], 100) \/ Overflows(data[2], 100)
                                \/ Overflows(data[5], 1) \/ Overflows(data[6], 1)
                                \/ Overflows(data[7], 1))
        THEN DateErr("panic")
    ELSE
        LET century == WrappingSub(data[1], 100)
            year_in_century == WrappingSub(data[2], 100)
            year == century * 100 + year_in_century
            month == data[3]
            day == data[4]
            hour == WrappingSub(data[5], 1)
            minute == WrappingSub(data[6], 1)
            second == WrappingSub(data[7], 1)
        IN  IF month \notin 1..12 THEN DateErr("Protocol")
            ELSE IF day \notin 1..31 THEN DateErr("Protocol")
            ELSE IF hour > 23 THEN DateErr("Protocol")
            ELSE IF minute > 59 THEN DateErr("Protocol")
            ELSE IF second > 59 THEN DateErr("Protocol")
            ELSE IF day > DaysInMonth(year, month) THEN DateErr("Protocol")
            ELSE DateTime(<<year, month, day, hour, minute, second>>)

\* DATE values a server sends: a wrong length, and seven bytes with each
\* field at, inside and outside the ends of its range
DateFields ==
    <<{99, 120}, {99, 100, 124}, {0, 2, 12, 13}, {0, 29, 30, 32},
      {0, 1, 24, 25}, {0, 60, 61}, {0, 1, 61}>>
DateInputs ==
    {[kind |-> "decode_oracle_date", writer |-> "server", v |-> b] :
        b \in {<<120, 124, 10>>, <<120, 124, 10, 21, 13, 37, 6, 1>>} \cup
              {<<c, y, mo, d, h, mi, s>> :
                  c \in DateFields[1], y \in DateFields[2], mo \in DateFields[3],
                  d \in DateFields[4], h \in DateFields[5], mi \in DateFields[6],
                  s \in DateFields[7]}}

\* ExecuteMessage (messages/execute.rs): wire_size and write_to.  u32 and
\* u64 fields are numbers below 2^31; the writers take their big-endian bytes.
TNS_MSG_TYPE_FUNCTION == 3
TNS_FUNC_EXECUTE == 94
TNS_EXEC_FLAGS_IMPLICIT_RESULTSET == 32768
TNS_MAX_LONG_LENGTH == 2147483647
TNS_CCAP_FIELD_VERSION_12_2 == 8
TNS_CCAP_FIELD_VERSION_12_2_EXT1 == 9
TNS_CCAP_FIELD_VERSION_23_1 == 17
\* used by write_to; the version that follows 23.1
TNS_CCAP_FIELD_VERSION_23_1_EXT_1 == TNS_CCAP_FIELD_VERSION_23_1 + 1

\* message.rs: ub2_wire_size, ub4_wire_size, ub8_wire_size
ub2_wire_size(val) == IF val = 0 THEN 1 ELSE IF val <= 255 THEN 2 ELSE 3
ub4_wire_size(val) ==
    IF val = 0 THEN 1
    ELSE IF val <= 255 THEN 2
    ELSE IF val <= 65535 THEN 3
    ELSE IF val <= 16777215 THEN 4
    ELSE 5
\* the arms of ub8_wire_size a value below 2^31 can take
ub8_wire_size(val) == ub4_wire_size(val)

\* message.rs: bytes_with_length_wire_size
bytes_with_length_wire_size(len) ==
    IF len = 0 THEN 1
    ELSE IF len < TNS_LONG_LENGTH_INDICATOR THEN 1 + len
    ELSE LET num_chunks == (len + CHUNK - 1) \div CHUNK
         IN  1 + (num_chunks * 5) + len + 1

\* buf.write_ub2 / write_ub4 / write_ub8 of a number
write_ub2(val) == WriteExt_write_ub2(<<val \div 256, val % 256>>)
write_ub4(val) == WriteExt_write_ub(FromLength(val))
write_ub8(val) == WriteExt_write_ub(Zero(4) \o FromLength(val))

\* ExecuteMessage::new_query and new_define with every field of the struct
ExecuteQuery(sql_bytes, prefetch_rows, ttc_field_version) ==
    [sql_bytes |-> sql_bytes, cursor_id |-> 0, sequence_number |-> 1,
     is_query |-> TRUE, parse_only |-> FALSE, prefetch_rows |-> prefetch_rows,
     ttc_field_version |-> ttc_field_version, fetch_var_impls |-> FALSE,
     vars |-> <<>>]
ExecuteDefine(cursor_id, fetch_vars, prefetch_rows, ttc_field_version) ==
    [sql_bytes |-> <<>>, cursor_id |-> cursor_id, sequence_number |-> 2,
     is_query |-> TRUE, parse_only |-> FALSE, prefetch_rows |-> prefetch_rows,
     ttc_field_version |-> ttc_field_version, fetch_var_impls |-> TRUE,
     vars |-> fetch_vars]

\* ExecuteMessage::calc_exec_flags
calc_exec_flags(m) ==
    Bit(m.is_query /\ m.sql_bytes # <<>> /\ ~m.parse_only,
        TNS_EXEC_FLAGS_IMPLICIT_RESULTSET)

\* ExecuteMessage::column_metadata_wire_size
RECURSIVE column_metadata_wire_size(_, _)
column_metadata_wire_size(m, i) ==
    IF i > Len(m.vars) THEN 0
    ELSE LET var == m.vars[i]
         IN  1 + 1 + 1 + 1
             + ub4_wire_size(var.buffer_size)
             + ub4_wire_size(var.max_num_elements)
             + ub8_wire_size(var.cont_flag)
             + ub4_wire_size(0)
             + ub2_wire_size(0)
             + ub2_wire_size(var.charset_id)
             + 1
             + ub4_wire_size(var.lob_prefetch_length)
             + (IF m.ttc_field_version >= TNS_CCAP_FIELD_VERSION_12_2
                    THEN ub4_wire_size(0) ELSE 0)
             + column_metadata_wire_size(m, i + 1)

\* ExecuteMessage::write_column_metadata
RECURSIVE write_column_metadata(_, _)
write_column_metadata(m, i) ==
    IF i > Len(m.vars) THEN <<>>
    ELSE LET var == m.vars[i]
         IN  <<var.ora_type_num, var.flags, 0, 0>>
             \o write_ub4(var.buffer_size)
             \o write_ub4(var.max_num_elements)
             \o write_ub8(var.cont_flag)
             \o write_ub4(0)
             \o write_ub2(0)
             \o write_ub2(var.charset_id)
             \o <<var.charset_form>>
             \o write_ub4(var.lob_prefetch_length)
             \o (IF m.ttc_field_version >= TNS_CCAP_FIELD_VERSION_12_2
                     THEN write_ub4(0) ELSE <<>>)
             \o write_column_metadata(m, i + 1)

\* ExecuteMessage::wire_size
ExecuteMessage_wire_size(m) ==
    LET sql_len == Len(m.sql_bytes)
        is_new_cursor == m.cursor_id = 0
        exec_count == IF is_new_cursor THEN 0 ELSE m.prefetch_rows
    IN  1 + 1 + 1
        + ub4_wire_size(calc_options(m))
        + ub4_wire_size(m.cursor_id)
        + 1 + ub4_wire_size(IF is_new_cursor THEN sql_len ELSE 0)
        + 1 + ub4_wire_size(13)
        + 1 + 1
        + ub4_wire_size(0) + ub4_wire_size(m.prefetch_rows)
        + ub4_wire_size(TNS_MAX_LONG_LENGTH)
        + 1 + ub4_wire_size(0)
        + 1 + 1 + 1 + 1 + 1
        + 1 + ub4_wire_size(IF m.fetch_var_impls THEN Len(m.vars) ELSE 0)
        + ub4_wire_size(0) + 1 + 1 + 1 + ub4_wire_size(0) + 1 + ub4_wire_size(0)
        + ub4_wire_size(0)
        + 1 + ub4_wire_size(0) + 1
        + (IF m.ttc_field_version >= TNS_CCAP_FIELD_VERSION_12_2
               THEN 1 + ub4_wire_size(0) + 1 + ub4_wire_size(0) + 1
                    + (IF m.ttc_field_version >= TNS_CCAP_FIELD_VERSION_12_2_EXT1
                           THEN 1 + ub4_wire_size(0) ELSE 0)
               ELSE 0)
        + (IF is_new_cursor THEN bytes_with_length_wire_size(sql_len) ELSE 0)
        + ub4_wire_size(IF is_new_cursor THEN 1 ELSE 0)
        + ub4_wire_size(exec_count)
        + ub4_wire_size(0) + ub4_wire_size(0) + ub4_wire_size(0)
        + ub4_wire_size(0) + ub4_wire_size(0)
        + ub4_wire_size(IF m.is_query THEN 1 ELSE 0)
        + ub4_wire_size(0)
        + ub4_wire_size(calc_exec_flags(m))
        + ub4_wire_size(0) + ub4_wire_size(0) + ub4_wire_size(0)
        + column_metadata_wire_size(m, 1)

\* ExecuteMessage::write_to
ExecuteMessage_write_to(m) ==
    LET sql_len == Len(m.sql_bytes)
        is_new_cursor == m.cursor_id = 0
        exec_count == IF is_new_cursor THEN 0 ELSE m.prefetch_rows
    IN  <<TNS_MSG_TYPE_FUNCTION, TNS_FUNC_EXECUTE, m.sequence_number>>
        \o (IF m.ttc_field_version >= TNS_CCAP_FIELD_VERSION_23_1_EXT_1
                THEN <<0>> ELSE <<>>)
        \o write_ub4(calc_options(m))
        \o write_ub4(m.cursor_id)
        \o (IF is_new_cursor THEN <<1>> \o write_ub4(sql_len) ELSE <<0>> \o write_ub4(0))
        \o <<1>> \o write_ub4(13)
        \o <<0, 0>>
        \o write_ub4(0) \o write_ub4(m.prefetch_rows) \o write_ub4(TNS_MAX_LONG_LENGTH)
        \o <<0>> \o write_ub4(0)
        \o <<0, 0, 0, 0, 0>>
        \o (IF m.fetch_var_impls THEN <<1>> \o write_ub4(Len(m.vars))
                                 ELSE <<0>> \o write_ub4(0))
        \o write_ub4(0) \o <<0, 1, 0>> \o write_ub4(0) \o <<0>> \o write_ub4(0)
        \o write_ub4(0)
        \o <<0>> \o write_ub4(0) \o <<0>>
        \o (IF m.ttc_field_version >= TNS_CCAP_FIELD_VERSION_12_2
                THEN <<0>> \o write_ub4(0) \o <<0>> \o write_ub4(0) \o <<0>>
                     \o (IF m.ttc_field_version >= TNS_CCAP_FIELD_VERSION_12_2_EXT1
                             THEN <<0>> \o write_ub4(0) ELSE <<>>)
                ELSE <<>>)
        \o (IF is_new_cursor THEN WriteExt_write_bytes_with_length(m.sql_bytes) ELSE <<>>)
        \o write_ub4(IF is_new_cursor THEN 1 ELSE 0)
        \o write_ub4(exec_count)
        \o write_ub4(0) \o write_ub4(0) \o write_ub4(0)
        \o write_ub4(0) \o write_ub4(0)
        \o write_ub4(IF m.is_query THEN 1 ELSE 0)
        \o write_ub4(0)
        \o write_ub4(calc_exec_flags(m))
        \o write_ub4(0) \o write_ub4(0) \o write_ub4(0)
        \o write_column_metadata(m, 1)

\* the messages the connection builds: statements of a few bytes, of the
\* last short and the first long length, and of more than one chunk; the
\* field versions around each threshold; one or two defined columns
SqlLengths == {1, TNS_LONG_LENGTH_INDICATOR - 1, TNS_LONG_LENGTH_INDICATOR, CHUNK + 1}
PrefetchRows == {0, 2, 256}
FieldVersions ==
    {TNS_CCAP_FIELD_VERSION, TNS_CCAP_FIELD_VERSION_12_2,
     TNS_CCAP_FIELD_VERSION_12_2_EXT1, TNS_CCAP_FIELD_VERSION_19_1_EXT_1,
     TNS_CCAP_FIELD_VERSION_23_1, TNS_CCAP_FIELD_VERSION_23_1_EXT_1,
     TNS_CCAP_FIELD_VERSION_MAX}
FetchVars ==
    {[ora_type_num |-> 1, flags |-> 0, buffer_size |-> 4000, max_num_elements |-> 0,
      cont_flag |-> 0, charset_id |-> 873, charset_form |-> 1,
      lob_prefetch_length |-> 0],
     [ora_type_num |-> 112, flags |-> 1, buffer_size |-> 0, max_num_elements |-> 1,
      cont_flag |-> 65536, charset_id |-> 0, charset_form |-> 0,
      lob_prefetch_length |-> 16777216]}
ExecuteMessages ==
    {ExecuteQuery(Slice(n, 0), r, fv) :
        n \in SqlLengths, r \in PrefetchRows, fv \in FieldVersions}
    \cup {ExecuteDefine(c, fetch_vars, r, fv) :
            c \in {1, 300}, fetch_vars \in [1..1 -> FetchVars] \cup [1..2 -> FetchVars],
            r \in PrefetchRows, fv \in FieldVersions}
MessageInputs ==
    {[kind |-> "ExecuteMessage", writer |-> "WriteExt", v |-> m] : m \in ExecuteMessages}

\* the writer is called on the input
CodecWrite ==
    /\ cx_pc = "input"
    /\ cx_wire' =
         CASE cx_in.kind = "ub2" ->
                IF cx_in.writer = "WriteBuffer" THEN WriteBuffer_write_ub2(cx_in.v)
                ELSE WriteExt_write_ub2(cx_in.v)
           [] cx_in.kind \in {"ub4", "ub8"} ->
                IF cx_in.writer = "WriteBuffer" THEN WriteBuffer_write_ub(cx_in.v)
                ELSE WriteExt_write_ub(cx_in.v)
           [] cx_in.kind = "bytes" ->
                IF cx_in.writer = "WriteBuffer"
                    THEN WriteBuffer_write_bytes_with_length(cx_in.v)
                    ELSE WriteExt_write_bytes_with_length(cx_in.v)
           [] cx_in.kind = "ExecuteMessage" -> ExecuteMessage_write_to(cx_in.v)
    /\ cx_pc' = "written"
    /\ UNCHANGED <<conn, framer, rowc, fauth, dial, cx_in, cx_out>>

\* a ReadBuffer over the bytes written, and the matching read
CodecRead ==
    /\ cx_pc = "written"
    /\ cx_in.kind \notin {"decode_oracle_date", "ExecuteMessage"}
    /\ cx_out' =
         CASE cx_in.kind = "ub2" -> read_ub2(cx_wire, 1)
           [] cx_in.kind = "ub4" -> read_ub(cx_wire, 1, 4)
           [] cx_in.kind = "ub8" -> read_ub(cx_wire, 1, 8)
           [] cx_in.kind = "bytes" -> read_bytes_with_length(cx_wire)
           [] cx_in.kind = "read_ub2" -> read_ub2(cx_wire, 1)
           [] cx_in.kind = "read_ub4" -> read_ub(cx_wire, 1, 4)
           [] cx_in.kind = "read_ub8" -> read_ub(cx_wire, 1, 8)
           [] cx_in.kind = "skip_ub4" -> skip_ub4(cx_wire, 1)
           [] cx_in.kind = "read_bytes_with_length" -> read_bytes_with_length(cx_wire)
    /\ cx_pc' = "read"
    /\ UNCHANGED <<conn, framer, rowc, fauth, dial, cx_in, cx_wire>>

\* the DATE decoder on a column value, in either build
CodecDecodeDate ==
    /\ cx_pc = "written"
    /\ cx_in.kind = "decode_oracle_date"
    /\ \E overflow_checks \in BOOLEAN :
         cx_out' = decode_oracle_date(cx_wire, overflow_checks)
    /\ cx_pc' = "read"
    /\ UNCHANGED <<conn, framer, rowc, fauth, dial, cx_in, cx_wire>>

\* the size the caller reserves for the message written
CodecWireSize ==
    /\ cx_pc = "written"
    /\ cx_in.kind = "ExecuteMessage"
    /\ cx_out' = [err |-> "none", size |-> ExecuteMessage_wire_size(cx_in.v)]
    /\ cx_pc' = "read"
    /\ UNCHANGED <<conn, framer, rowc, fauth, dial, cx_in, cx_wire>>

InitCodec ==
    /\ InitConn
    /\ FramerReady
    /\ RowCursorUnopened
    /\ FastAuthIdle
    /\ DialIdle
    /\ \/ /\ cx_pc = "input"
          /\ cx_in \in CodecInputs \cup MessageInputs
          /\ cx_wire = <<>>
       \/ /\ cx_pc = "written"
          /\ cx_in \in ReaderInputs \cup DateInputs
          /\ cx_wire = cx_in.v
    /\ cx_out = <<>>

NextCodec ==
    \/ CodecWrite
    \/ CodecRead
    \/ CodecDecodeDate
    \/ CodecWireSize

SpecCodec == InitCodec /\ [][NextCodec]_vars

(* ---------------------------------------------------------------------- *)
(* Reading the event log                                                   *)
(* ---------------------------------------------------------------------- *)
IsRequest(e) == e.ev = "send" /\ e.pkt.kind # "RESET"
IsRecv(e, ptype) == e.ev = "recv" /\ e.pkt.ptype = ptype
\* the client's RESET marker as it is on the wire
IsClientReset(e) ==
    /\ e.ev = "send"
    /\ e.pkt.ptype = TNS_PACKET_TYPE_MARKER
    /\ e.pkt.bytes = <<1, 0, 2>>
\* a MARKER from the server whose payload byte at offset 2 is RESET
IsServerReset(e) ==
    /\ IsRecv(e, TNS_PACKET_TYPE_MARKER)
    /\ Len(e.pkt.bytes) >= 3
    /\ e.pkt.bytes[3] = 2
IsForeign(e) ==
    /\ e.ev = "recv"
    /\ e.pkt.ptype \notin {TNS_PACKET_TYPE_DATA, TNS_PACKET_TYPE_CONTROL,
                           TNS_PACKET_TYPE_MARKER}
\* the log is that of a statement (query, open_row_cursor, fetch)
StatementLog == log # <<>> /\ log[1].pkt.kind \in {"EXECUTE", "FETCH"}
\* the kind of the request the client is waiting on (or waited on last)
LastRequestKind ==
    LET i == CHOOSE i \in DOMAIN log :
                 IsRequest(log[i]) /\ \A j \in (i + 1)..Len(log) : ~IsRequest(log[j])
    IN  log[i].pkt.kind
\* event number i falls inside a drain: the client sent RESET before it and
\* since then read neither the server's RESET marker nor a DATA packet
DrainingAt(i) ==
    \E k \in 1..(i - 1) :
        /\ IsClientReset(log[k])
        /\ \A j \in (k + 1)..(i - 1) :
               /\ log[j].ev = "recv"
               /\ ~IsRecv(log[j], TNS_PACKET_TYPE_DATA)
               /\ ~IsServerReset(log[j])
\* the MARKER at event i opens a recovery (it is not one drained inside one)
StartsRecovery(i) ==
    IF StatementLog THEN ~DrainingAt(i)
    ELSE \A h \in 1..(i - 1) : ~IsRecv(log[h], TNS_PACKET_TYPE_MARKER)
InParsed(p) == \E k \in DOMAIN parsed : parsed[k] = p
\* every packet read answers a request sent in the same operation
OwnPackets ==
    \A i \in DOMAIN log :
        log[i].ev = "recv" =>
            \E j \in 1..(i - 1) : IsRequest(log[j]) /\ log[j].pkt.req = log[i].pkt.req

C2_DrainThenParseNoResend ==
    StatementLog =>
        /\ pc \in StatementCalls => (rd = "inner" <=> DrainingAt(Len(log) + 1))
        /\ \A i \in DOMAIN log :
               (IsRecv(log[i], TNS_PACKET_TYPE_DATA)
                    /\ \E j \in 1..(i - 1) : IsRecv(log[j], TNS_PACKET_TYPE_MARKER))
               => InParsed(log[i].pkt)
        /\ \A i, j \in DOMAIN log :
               (i < j /\ IsRequest(log[i]) /\ IsRequest(log[j]))
               => log[i].pkt.kind # log[j].pkt.kind
\* a cursor open interrupted by a MARKER ended with the error of the DATA
\* packet that followed the server's RESET marker
C2_Witness ==
    /\ pc = "idle"
    /\ outcome.op = "open"
    /\ outcome.status = "Oracle"
    /\ \E i \in DOMAIN log : IsServerReset(log[i])
    /\ IsRecv(log[Len(log)], TNS_PACKET_TYPE_DATA)
    /\ InParsed(log[Len(log)].pkt)

\* C3: the MARKER that opens a recovery (statement path, phase one, phase
\* two) is followed at once by the client's RESET marker <<1, 0, 2>>: no
\* packet is read in between.
C3_ResetBeforePostMarkerReads ==
    \A i \in DOMAIN log :
        (IsRecv(log[i], TNS_PACKET_TYPE_MARKER) /\ StartsRecovery(i))
        => (i + 1 \in DOMAIN log /\ IsClientReset(log[i + 1]))
\* a statement read the server's packets after a MARKER, its RESET sent first
C3_Witness ==
    /\ StatementLog
    /\ \E i \in DOMAIN log :
           /\ IsRecv(log[i], TNS_PACKET_TYPE_MARKER)
           /\ IsClientReset(log[i + 1])
           /\ i + 2 \in DOMAIN log
           /\ log[i + 2].ev = "recv"

\* C4: only DATA packets reach a parser, and a CONTROL packet read by
\* read_data_response or read_data_packet ends nothing: the call goes on
\* waiting; the operation's result comes from the DATA packet read last.
C4_ControlSkippedDataReturned ==
    /\ \A k \in DOMAIN parsed : parsed[k].ptype = TNS_PACKET_TYPE_DATA
    /\ (/\ log # <<>>
        /\ IsRecv(log[Len(log)], TNS_PACKET_TYPE_CONTROL)
        /\ LastRequestKind \in {"PROTOCOL", "DATA_TYPES", "EXECUTE", "DEFINE", "FETCH"})
       => pc \in StatementCalls \cup {"dt1", "dt2"}
    /\ (pc = "idle" /\ StatementLog /\ outcome.status \in {"Ok", "Oracle", "Protocol"})
       => (/\ IsRecv(log[Len(log)], TNS_PACKET_TYPE_DATA)
           /\ parsed[Len(parsed)] = log[Len(log)].pkt)
\* a statement succeeded although CONTROL packets came before its response
C4_Witness ==
    /\ pc = "idle"
    /\ StatementLog
    /\ outcome.status = "Ok"
    /\ \E i \in DOMAIN log : IsRecv(log[i], TNS_PACKET_TYPE_CONTROL)

\* C5 as claimed: a packet of an unhandled type read anywhere in the
\* statement read path fails the operation with UnexpectedPacketType.
C5_AsClaimed ==
    (StatementLog /\ IsForeign(log[Len(log)]))
    => (pc = "idle" /\ outcome.status = "UnexpectedPacketType")
\* C5: a packet of an unhandled type fails the operation with
\* UnexpectedPacketType when it is read outside a marker recovery's drain;
\* read inside the drain it is discarded and the drain goes on.
C5_UnexpectedOutsideDrain ==
    (StatementLog /\ IsForeign(log[Len(log)]))
    => IF DrainingAt(Len(log))
           THEN pc \in StatementCalls /\ rd = "inner"
           ELSE /\ pc = "idle"
                /\ outcome.status = "UnexpectedPacketType"
                /\ outcome.code = log[Len(log)].pkt.ptype
\* a statement failed with UnexpectedPacketType
C5_Witness ==
    /\ pc = "idle"
    /\ StatementLog
    /\ IsForeign(log[Len(log)])
    /\ outcome.status = "UnexpectedPacketType"

\* the Packet fields of a packet of the stream / of a packet read_packet returned
AsPacket(p) ==
    [packet_type |-> p.ptype, packet_flags |-> p.flags, payload |-> p.payload]
Returned(e) ==
    [packet_type |-> e.packet_type, packet_flags |-> e.packet_flags,
     payload |-> e.payload]

\* C6: whatever the socket reads return, the packets read_packet has
\* returned are the first packets of the stream, in order and once each;
\* the bytes buffered and the bytes not yet read are exactly the packets
\* not yet returned (surplus is kept); the stream's end is reported only
\* when every packet was returned.
C6_FramerEmitsStreamPackets ==
    /\ Len(emitted) <= Len(stream)
    /\ \A i \in DOMAIN emitted : Returned(emitted[i]) = AsPacket(stream[i])
    /\ partial_buf \o tcp = Wire(SubSeq(stream, Len(emitted) + 1, Len(stream)))
    /\ phase # "panic"
    /\ phase = "closed" => Len(emitted) = Len(stream)
    /\ phase \in {"connect_read", "reading"} /\ ~NeedsBytes
           => Len(partial_buf) >= HEADER_SIZE
\* two packets were returned while bytes of the third are already buffered
C6_Witness ==
    /\ phase = "ready"
    /\ Len(emitted) = 2
    /\ Len(stream) = 3
    /\ partial_buf # <<>>
    /\ Len(partial_buf) < HEADER_SIZE

\* C7: with a negotiated version of 315 or more every header the client
\* writes and every length it parses is a 4-byte big-endian number; before
\* (CONNECT, RESEND, ACCEPT) it is a 2-byte number and two zero bytes
\* follow in what the client writes.
C7_LengthFieldByVersion ==
    /\ \A i \in DOMAIN sent :
           LET b == sent[i].bytes
           IN  IF sent[i].version >= 315
                   THEN SubSeq(b, 1, 4) = U32BE(Len(b))
                   ELSE SubSeq(b, 1, 2) = U16BE(Len(b)) /\ b[3] = 0 /\ b[4] = 0
    /\ \A i \in DOMAIN emitted :
           LET e == emitted[i]
           IN  IF e.version >= 315
                   THEN e.len = FromBE4(e.hdr)
                   ELSE e.len = FromBE2(e.hdr)
    /\ use_large_sdu <=> negotiated >= 315
\* version 315 was negotiated; a packet was written and one parsed on each
\* side of the ACCEPT
C7_Witness ==
    /\ negotiated = 315
    /\ \E i, j \in DOMAIN sent : sent[i].version = 0 /\ sent[j].version = 315
    /\ \E i, j \in DOMAIN emitted : emitted[i].version = 0 /\ emitted[j].version = 315

\* C8 as claimed: more_rows true only with error code 0, false only with
\* error code 0 or 1403.
C8_AsClaimed ==
    resp.ok =>
        /\ resp.more_rows => resp.error_num = 0
        /\ ~resp.more_rows => resp.error_num \in {0, ORA_NO_DATA_FOUND}
\* C8: after every parsed EXECUTE or FETCH response more_rows is true
\* exactly when the error code was 0; with 1403 or any other code it is false.
C8_MoreRowsIffCodeZero ==
    resp.ok => (resp.more_rows <=> resp.error_num = 0)
\* a response with an Oracle error code was parsed
C8_Witness ==
    /\ resp.ok
    /\ resp.error_num = ORA_TABLE_NOT_FOUND
    /\ ~resp.more_rows

\* C9 as claimed: a statement whose response carries an error code other
\* than 0 and 1403 never returns a successful result.
C9_AsClaimed ==
    (outcome.op \in {"query", "open", "fetch"} /\ outcome.status = "Ok")
    => outcome.code \in {0, ORA_NO_DATA_FOUND}

\* C10: the statement that follows one failed with an Oracle error reads
\* only packets that answer its own requests, and the failed statement left
\* no packet unread and no request unanswered.
C10_UsableAfterOracleError ==
    /\ (pc = "idle" /\ outcome.status = "Oracle")
       => (/\ wire = <<>>
           /\ srv.mode = "idle"
           /\ \A i \in DOMAIN inbox : inbox[i].kind = "RESET")
    /\ (\/ pc \in StatementCalls /\ outcome.status = "Oracle"
        \/ pc = "idle" /\ StatementLog /\ prev.status = "Oracle")
       => OwnPackets
\* a query succeeded right after a cursor open failed with an Oracle error
C10_Witness ==
    /\ pc = "idle"
    /\ prev.status = "Oracle"
    /\ outcome.op = "query"
    /\ outcome.status = "Ok"
    /\ outcome.code = 0
    /\ outcome.rows > 0
    /\ OwnPackets

(* ---------------------------------------------------------------------- *)
(* C11                                                                     *)
(* ---------------------------------------------------------------------- *)
StatementOps == {"query", "open", "fetch"}

\* C11 as stated: once a statement has been aborted by a Protocol error
\* (the decoder met a message it cannot parse) the connection is poisoned:
\* it sends no further request and parses no further response, so no call
\* is ever in progress while the last outcome is that Protocol error.
C11_AsClaimed ==
    (outcome.status = "Protocol" /\ outcome.op \in StatementOps)
        => (pc = "idle" /\ log[Len(log)].pkt.req <= outcome.req)

(* ---------------------------------------------------------------------- *)
(* C12                                                                     *)
(* ---------------------------------------------------------------------- *)
\* C12: code 1403 is never handed to the caller as an error. An operation
\* that fails with an Oracle error carries another code, and a response
\* whose ERROR message carries 1403 makes the operation succeed with
\* more_rows false: it only ends the row stream.
C12_NoDataFoundIsNotAnError ==
    /\ outcome.status = "Oracle" => outcome.code # ORA_NO_DATA_FOUND
    /\ (pc = "idle" /\ outcome.op \in StatementOps /\ resp.ok
        /\ outcome.status \in {"Ok", "Oracle"}
        /\ resp.error_num = ORA_NO_DATA_FOUND)
            => (outcome.status = "Ok" /\ ~outcome.more_rows)

\* a cursor was opened, and a batch was fetched, by a response carrying 1403
C12_Witness ==
    /\ outcome.op \in {"open", "fetch"}
    /\ outcome.status = "Ok"
    /\ outcome.code = ORA_NO_DATA_FOUND
    /\ ~outcome.more_rows
    /\ prev.op = "open"

(* ---------------------------------------------------------------------- *)
(* C14                                                                     *)
(* ---------------------------------------------------------------------- *)
\* C14: after any sequence of take_buffered, drain_buffer, add_rows and
\* buffer-clear calls the buffer position is at most the buffer length.
C14_PositionWithinBuffer ==
    rowcur.buffer_pos <= Len(rowcur.buffer)

\* rows were added behind a partly consumed buffer, after an earlier buffer
\* had been cleared, and every buffered row has been taken
C14_Witness ==
    /\ cpc = "api"
    /\ rowcur.buffer_pos = Len(rowcur.buffer)
    /\ rowcur.buffer_pos >= 2
    /\ rowcur.rows_fetched > Len(rowcur.buffer)
    /\ ret = "None"

(* ---------------------------------------------------------------------- *)
(* C13                                                                     *)
(* ---------------------------------------------------------------------- *)
\* C13: from the moment the server has assigned the cursor id until the
\* cursor is closed, every FETCH sent for the cursor carries that same id.
C13_SameCursorIdInEveryFetch ==
    /\ \A i \in DOMAIN fetches : fetches[i].msg.cursor_id = table.id
    /\ (cpc = "open" /\ rowcur.cursor_id # 0) => rowcur.cursor_id = table.id

\* a cursor that needed several FETCH messages was read to its end
C13_Witness ==
    /\ Len(fetches) >= 2
    /\ fetches[1].rows > 0
    /\ ret = "end"

BufferEmptyNoMore ==
    rowcur.buffer_pos >= Len(rowcur.buffer) /\ ~rowcur.more_rows

\* C16: when the caller asks for the next row while the buffer is empty and
\* more_rows is false, the cursor id is set to 0 and end-of-stream is
\* returned (no row, no FETCH); and end-of-stream is returned in no other
\* situation.
C16_EndOfStreamClosesCursor ==
    /\ [][(cpc = "open" /\ BufferEmptyNoMore /\ ret' # ret)
            => (ret' = "end" /\ rowcur'.cursor_id = 0
                /\ yielded' = yielded /\ fetches' = fetches)]_vars
    /\ [](ret = "end" => (BufferEmptyNoMore /\ rowcur.cursor_id = 0))

\* end-of-stream was returned after the last buffered row, and after a
\* FETCH that brought no row
C16_Witness ==
    /\ ret = "end"
    /\ rowcur.cursor_id = 0
    /\ table.n > 0
    /\ Len(yielded) = table.n
    /\ fetches # <<>>
    /\ fetches[Len(fetches)].rows = 0

(* ---------------------------------------------------------------------- *)
(* C17                                                                     *)
(* ---------------------------------------------------------------------- *)
\* C17: for a result set of N rows and any fetch size, iterating the cursor
\* yields the rows once each, in order (what has been yielded is always the
\* first rows of the result set), and when the iteration has ended exactly
\* N rows were yielded, the row count is N and the cursor is closed.
C17_AllRowsOnceInOrder ==
    /\ Len(yielded) <= table.n
    /\ yielded = RowsFrom(1, Len(yielded))
    /\ ret = "end" => /\ yielded = RowsFrom(1, table.n)
                      /\ rowcur.rows_fetched = table.n
                      /\ rowcur.cursor_id = 0

\* a result set that took the EXECUTE and more than one FETCH was read to
\* its end with a fetch size that does not divide its length
C17_Witness ==
    /\ ret = "end"
    /\ table.n >= 3
    /\ rowcur.fetch_size = 2
    /\ table.n % rowcur.fetch_size = 1
    /\ Len(yielded) = table.n

(* ---------------------------------------------------------------------- *)
(* C18                                                                     *)
(* ---------------------------------------------------------------------- *)
Ceil(n, f) == (n + f - 1) \div f

\* the FETCH messages that brought at least one row
WithRows == {i \in DOMAIN fetches : fetches[i].rows > 0}

\* the cursor was read to its end and its EXECUTE returned a full batch
IteratedFullFirstBatch ==
    /\ ret = "end"
    /\ table.n >= rowcur.fetch_size

\* C18 as stated: N rows, fetch size F, the EXECUTE returned F rows: the
\* client sends Ceil(N/F) - 1 FETCH messages that return rows, then one
\* more, final FETCH that receives ORA-01403.
C18_AsClaimed ==
    IteratedFullFirstBatch =>
        /\ Cardinality(WithRows) = Ceil(table.n, rowcur.fetch_size) - 1
        /\ Len(fetches) = Cardinality(WithRows) + 1
        /\ fetches[Len(fetches)].error_num = ORA_NO_DATA_FOUND

\* C18, amended: the client sends Ceil(N/F) - 1 FETCH messages that return
\* rows. If F divides N one more FETCH follows, which returns no row and
\* receives ORA-01403; otherwise the last FETCH that returns rows brings the
\* remaining N mod F rows together with ORA-01403. Every FETCH before the
\* last returns F rows with code 0, and none is sent after the one that
\* received ORA-01403: N div F FETCH messages in all.
C18_FetchesUntilNoDataFound ==
    /\ \A i \in DOMAIN fetches :
          i < Len(fetches) => /\ fetches[i].error_num = 0
                              /\ fetches[i].rows = fetches[i].msg.fetch_size
    /\ IteratedFullFirstBatch =>
          /\ Cardinality(WithRows) = Ceil(table.n, rowcur.fetch_size) - 1
          /\ Len(fetches) = table.n \div rowcur.fetch_size
          /\ fetches[Len(fetches)].error_num = ORA_NO_DATA_FOUND
          /\ fetches[Len(fetches)].rows = table.n % rowcur.fetch_size

\* five rows read with fetch size two: the second FETCH brings the last row
\* and ORA-01403, no third one is sent
C18_Witness ==
    /\ ret = "end"
    /\ table.n = 5
    /\ rowcur.fetch_size = 2
    /\ Len(fetches) = 2
    /\ fetches[2].rows = 1
    /\ fetches[2].error_num = ORA_NO_DATA_FOUND

(* ---------------------------------------------------------------------- *)
(* C19                                                                     *)
(* ---------------------------------------------------------------------- *)
\* what a DATA payload says, read off its messages
RowDataIn(msgs) == Cardinality({k \in DOMAIN msgs : msgs[k].t = TNS_MSG_TYPE_ROW_DATA})
ErrorsIn(msgs) == {k \in DOMAIN msgs : msgs[k].t = TNS_MSG_TYPE_ERROR}
NoRowsButMore(msgs) ==
    /\ RowDataIn(msgs) = 0
    /\ \A k \in ErrorsIn(msgs) : msgs[k].num = 0
    /\ \A k \in DOMAIN msgs : msgs[k].t # MSG_TYPE_UNKNOWN
AssignedCursorId(msgs) ==
    IF ErrorsIn(msgs) = {} THEN 0
    ELSE msgs[CHOOSE k \in ErrorsIn(msgs) : \A j \in ErrorsIn(msgs) : j <= k].cid

DefineSends ==
    {i \in DOMAIN log : log[i].ev = "send" /\ log[i].pkt.kind = "DEFINE"}
DataReceived ==
    {i \in DOMAIN log : IsRecv(log[i], TNS_PACKET_TYPE_DATA)}
RECURSIVE SumRowData(_)
SumRowData(s) ==
    IF s = {} THEN 0
    ELSE LET i == CHOOSE x \in s : TRUE
         IN  RowDataIn(log[i].pkt.msgs) + SumRowData(s \ {i})

C20_CapabilitiesFrozenAfterHandshake ==
    [][(pc \in {"idle"} \cup StatementCalls) => caps' = caps]_vars

\* the handshake lowered the field version to the server's, then two
\* statements ran, the last one reading a CONTROL packet on its way
C20_Witness ==
    /\ pc = "idle"
    /\ outcome.op \in StatementOps
    /\ prev.op \in StatementOps
    /\ caps.ttc_field_version = TNS_CCAP_FIELD_VERSION_19_1_EXT_1
    /\ caps.server_ttc_field_version = TNS_CCAP_FIELD_VERSION_19_1_EXT_1
    /\ \E i \in DOMAIN log : IsRecv(log[i], TNS_PACKET_TYPE_CONTROL)

(* ---------------------------------------------------------------------- *)
(* C22                                                                     *)
(* ---------------------------------------------------------------------- *)
\* the PROTOCOL message the handshake has read, once it has read it
ProtocolRead ==
    {i \in DOMAIN parsed :
        parsed[i].msgs # <<>> /\ parsed[i].msgs[1].t = TNS_MSG_TYPE_PROTOCOL}

\* C22: merging the server's capability arrays sets the negotiated field
\* version (the field and the FIELD_VERSION byte of the compile caps) to
\* the minimum of the client's and the server's value, and every other
\* compile-time and runtime capability byte stays what the client set.
C22_OnlyFieldVersionMerged ==
    /\ caps.compile_caps.sql_version = NewCapabilities.compile_caps.sql_version
    /\ caps.compile_caps.len = NewCapabilities.compile_caps.len
    /\ caps.runtime_caps = NewCapabilities.runtime_caps
    /\ caps.compile_caps.field_version = caps.ttc_field_version
    /\ \A i \in ProtocolRead :
          LET m == parsed[i].msgs[1]
          IN  m.ccaps.len > TNS_CCAP_FIELD_VERSION =>
                 /\ caps.ttc_field_version =
                      Min(NewCapabilities.ttc_field_version, m.ccaps.field_version)
                 /\ caps.server_ttc_field_version = m.ccaps.field_version

\* the arrays of an older server were merged: the field version went down
\* to the server's while the handshake was still going on
C22_Witness ==
    /\ pc = "p1"
    /\ ProtocolRead # {}
    /\ caps.ttc_field_version = TNS_CCAP_FIELD_VERSION_19_1_EXT_1
    /\ caps.compile_caps.field_version = TNS_CCAP_FIELD_VERSION_19_1_EXT_1
    /\ caps.compile_caps.sql_version = TNS_CCAP_SQL_VERSION_MAX

(* ---------------------------------------------------------------------- *)
(* C21                                                                     *)
(* ---------------------------------------------------------------------- *)
\* where message k of the FastAuth response starts in the payload, and
\* whether the loop has read its type byte / has gone past it
StartOf(k) == Len(Payload(SubSeq(fa_reply, 1, k - 1))) + 1
Reached(k) == fa_rbuf # <<>> /\ fa_pos >= StartOf(k)
Parsed(k) == fa_rbuf # <<>> /\ fa_pos >= StartOf(k + 1)

\* fast_auth has returned Ok / has returned
FastAuthOk == fa_pc \in {"phase2", "connected", "refused", "panicked"}
FastAuthReturned == FastAuthOk \/ fa_pc = "failed"

\* C21: on the FastAuth path the negotiated field version is 13 once the
\* handshake is over, whatever higher maximum the server reported, and the
\* server's own field version is kept in a field of its own.
C21_FastAuthFieldVersion ==
    FastAuthOk =>
        \A k \in DOMAIN fa_reply :
            LET m == fa_reply[k]
            IN  (/\ m.t = TNS_MSG_TYPE_PROTOCOL
                 /\ Parsed(k)
                 /\ m.ccaps.len > TNS_CCAP_FIELD_VERSION
                 /\ m.ccaps.field_version >= TNS_CCAP_FIELD_VERSION_19_1_EXT_1)
                => /\ caps.ttc_field_version = TNS_CCAP_FIELD_VERSION_19_1_EXT_1
                   /\ caps.server_ttc_field_version = m.ccaps.field_version

\* the server reported 24: the client holds 13 and 24 side by side
C21_Witness ==
    /\ FastAuthOk
    /\ \E k \in DOMAIN fa_reply : fa_reply[k].t = TNS_MSG_TYPE_PROTOCOL /\ Parsed(k)
    /\ caps.ttc_field_version = TNS_CCAP_FIELD_VERSION_19_1_EXT_1
    /\ caps.server_ttc_field_version = TNS_CCAP_FIELD_VERSION_MAX

PhaseTwoOver == fa_pc \in {"connected", "refused", "panicked"} /\ fa_reply2 # <<>>

\* the AUTH_SVR_RESPONSE values of the PARAMETER message parse_auth_response
\* reads in the phase-two reply
SvrResponses ==
    LET m == IF fa_reply2[1].t = TNS_MSG_TYPE_STATUS /\ Len(fa_reply2) > 1
                 THEN fa_reply2[2] ELSE fa_reply2[1]
    IN  IF m.t = TNS_MSG_TYPE_PARAMETER
            THEN {m.params[i].value : i \in {j \in DOMAIN m.params :
                                                m.params[j].key = "AUTH_SVR_RESPONSE"}}
            ELSE {}

\* the value is the hex form of a ciphertext made with the combo key whose
\* plaintext has SERVER_TO_CLIENT in bytes [16..32]
Genuine(v) ==
    /\ v.ok
    /\ v.bytes.key = ClientComboKey
    /\ Len(v.bytes.plain) >= 2 * AES_BLOCK
    /\ SubSeq(v.bytes.plain, AES_BLOCK + 1, 2 * AES_BLOCK) = SERVER_TO_CLIENT

\* C25 (as claimed): a phase-two reply that carries AUTH_SVR_RESPONSE is
\* accepted only if the value decrypts under the combo key to bytes with
\* SERVER_TO_CLIENT at [16..32]; every other value is rejected with
\* InvalidServerResponse.
C25_AsClaimed ==
    PhaseTwoOver =>
        \A v \in SvrResponses :
            IF Genuine(v) THEN fa_pc = "connected"
            ELSE fa_pc = "refused" /\ fa_err.kind = "InvalidServerResponse"

(* ---------------------------------------------------------------------- *)
(* C27                                                                     *)
(* ---------------------------------------------------------------------- *)
\* C27 (as claimed): a message-type byte the parser does not know makes
\* the parse fail with a Protocol error, in the FastAuth loop and in
\* parse_auth_response as in the execute and fetch parsers; the byte is not
\* skipped and does not end the response.
C27_AsClaimed ==
    /\ FastAuthReturned =>
          \A k \in DOMAIN fa_reply :
              (fa_reply[k].t = MSG_TYPE_UNKNOWN /\ Reached(k))
              => fa_pc = "failed" /\ fa_err.kind = "Protocol"
    /\ (PhaseTwoOver /\ fa_reply2[1].t = MSG_TYPE_UNKNOWN)
          => fa_pc = "refused" /\ fa_err.kind = "Protocol"

(* ---------------------------------------------------------------------- *)
(* C23                                                                     *)
(* ---------------------------------------------------------------------- *)
\* what the client wrote before / after a protocol version was negotiated
SentBeforeAccept == SelectSeq(sent, LAMBDA r : r.version = 0)
SentAfterAccept == SelectSeq(sent, LAMBDA r : r.version # 0)

\* the ACCEPT packets the client has read that carry a version below the
\* minimum
OldAccepts ==
    {i \in DOMAIN emitted :
        /\ emitted[i].packet_type = TNS_PACKET_TYPE_ACCEPT
        /\ FromBE2(emitted[i].payload) < TNS_VERSION_MIN_ACCEPTED}

\* C23: after an ACCEPT packet with a protocol version below 315 the
\* connect attempt has failed with ServerVersionNotSupported, no version is
\* negotiated, and nothing but the CONNECT packets (with their connect
\* data) has been or will be sent: no protocol, data types or
\* authentication message.
C23_OldServerStopsHandshake ==
    OldAccepts # {} =>
        /\ phase = "unsupported"
        /\ negotiated = 0
        /\ SentAfterAccept = <<>>
        /\ \A j \in DOMAIN sent :
              \/ sent[j].bytes[5] = TNS_PACKET_TYPE_CONNECT
              \/ /\ sent[j].bytes[5] = TNS_PACKET_TYPE_DATA
                 /\ SubSeq(sent[j].bytes, HEADER_SIZE + 3, Len(sent[j].bytes)) = connect_string
        /\ fa_sent = <<>>

\* an ACCEPT with version 314 was read and the attempt is over
C23_Witness ==
    /\ OldAccepts # {}
    /\ phase = "unsupported"
    /\ sent # <<>>

(* ---------------------------------------------------------------------- *)
(* C24                                                                     *)
(* ---------------------------------------------------------------------- *)
ResendsRead ==
    Cardinality({i \in DOMAIN emitted : emitted[i].packet_type = TNS_PACKET_TYPE_RESEND})

\* packets of one CONNECT: two when the descriptor goes in a DATA packet
ConnectGroup == IF Len(connect_string) <= TNS_MAX_CONNECT_DATA THEN 1 ELSE 2

\* C24: for each RESEND the client has read it has sent once more what it
\* sent first, byte for byte: the CONNECT packet and, when the descriptor
\* was sent in a DATA packet of its own, that DATA packet after it; and
\* after a RESEND it is reading the next reply.
C24_ResendRepeatsConnect ==
    phase # "init" =>
        /\ Len(SentBeforeAccept) = (ResendsRead + 1) * ConnectGroup
        /\ \A j \in DOMAIN SentBeforeAccept :
              SentBeforeAccept[j].bytes = SentBeforeAccept[((j - 1) % ConnectGroup) + 1].bytes
        /\ SentBeforeAccept[1].bytes[5] = TNS_PACKET_TYPE_CONNECT
        /\ ConnectGroup = 2 =>
              /\ SentBeforeAccept[2].bytes[5] = TNS_PACKET_TYPE_DATA
              /\ SubSeq(SentBeforeAccept[2].bytes, HEADER_SIZE + 3,
                        Len(SentBeforeAccept[2].bytes)) = connect_string
        /\ (emitted # <<>> /\ emitted[Len(emitted)].packet_type = TNS_PACKET_TYPE_RESEND)
              => phase \in {"connect_read", "closed", "panic"}

\* two RESENDs were answered, each with the CONNECT packet and the DATA
\* packet of the descriptor
C24_Witness ==
    /\ ResendsRead = 2
    /\ ConnectGroup = 2
    /\ Len(SentBeforeAccept) = 6
    /\ phase = "connect_read"

(* ---------------------------------------------------------------------- *)
(* C28                                                                     *)
(* ---------------------------------------------------------------------- *)
\* C28 (as claimed): when the TCP connect to a resolved address runs into
\* the deadline the client goes on to the next resolved address, so when
\* connect_with_params has failed with ConnectionTimeout in the address
\* loop, a connect was started to every resolved address.
C28_AsClaimed ==
    (d_pc = "failed" /\ d_result = "ConnectionTimeout" /\ d_addrs # <<>>)
        => \A i \in DOMAIN d_addrs : \E j \in DOMAIN d_tried : d_tried[j] = i

(* ---------------------------------------------------------------------- *)
(* C29                                                                     *)
(* ---------------------------------------------------------------------- *)
\* C29 (as claimed): for every UB2, UB4 and UB8 value, reading with the
\* reader the bytes either writer of the crate wrote for it returns the
\* value.
C29_AsClaimed ==
    (cx_pc = "read" /\ cx_in.kind \in {"ub2", "ub4", "ub8"})
        => cx_out.err = "none" /\ cx_out.val = cx_in.v

(* ---------------------------------------------------------------------- *)
(* C30                                                                     *)
(* ---------------------------------------------------------------------- *)
\* C30 (as claimed): for every byte slice of length 0, 1, 100, 252, 253,
\* 254, 65535 or 65536, reading with read_bytes_with_length the bytes
\* either writer's write_bytes_with_length produced returns the slice.
C30_AsClaimed ==
    (cx_pc = "read" /\ cx_in.kind = "bytes") => cx_out = Some(cx_in.v)

(* ---------------------------------------------------------------------- *)
(* C31                                                                     *)
(* ---------------------------------------------------------------------- *)
\* a reader has been run over bytes the server wrote
ServerBytesRead(reader) ==
    cx_pc = "read" /\ cx_in.writer = "server" /\ cx_in.kind = reader

\* C31 (as claimed): read_bytes_with_length returns NULL (None) for a
\* length byte of 0xFF and an empty, non-NULL value for a length byte of
\* 0, so the two results differ.
C31_AsClaimed ==
    ServerBytesRead("read_bytes_with_length") =>
        /\ cx_wire[1] = 255 => cx_out = None
        /\ cx_wire[1] = 0 => cx_out = Some(<<>>)

(* ---------------------------------------------------------------------- *)
(* C33                                                                     *)
(* ---------------------------------------------------------------------- *)
\* the largest length byte of the UB format a reader or skipper handles
NominalMax ==
    CASE cx_in.kind = "read_ub2" -> 2
      [] cx_in.kind \in {"read_ub4", "skip_ub4"} -> 4
      [] cx_in.kind = "read_ub8" -> 8
      [] OTHER -> 255

\* C33 (as claimed): every reader or skipper of a UB2, UB4 or UB8 value
\* fails with a Protocol error when the length byte is above 2, 4 or 8; it
\* returns no value and consumes no bytes for such a length.
C33_AsClaimed ==
    \A r \in {"read_ub2", "read_ub4", "read_ub8", "skip_ub4"} :
        (ServerBytesRead(r) /\ cx_wire[1] > NominalMax) => cx_out.err = "Protocol"

(* ---------------------------------------------------------------------- *)
(* C34                                                                    *)
(* ---------------------------------------------------------------------- *)
DateDecoded == cx_pc = "read" /\ cx_in.kind = "decode_oracle_date"
FieldOutOfRange(d) ==
    \/ d[1] < 100 \/ d[2] < 100
    \/ d[3] \notin 1..12 \/ d[4] \notin 1..31
    \/ d[5] \notin 1..24 \/ d[6] \notin 1..60 \/ d[7] \notin 1..60

\* C34 (as claimed): the DATE decoder returns a Protocol error for every
\* input whose length is not 7 and for every 7-byte input with a field out
\* of range; it never returns a date for one and never crashes.
C34_AsClaimed ==
    (DateDecoded /\ (Len(cx_wire) # 7 \/ FieldOutOfRange(cx_wire))) =>
        cx_out.err = "Protocol"

(* ---------------------------------------------------------------------- *)
(* C35                                                                    *)
(* ---------------------------------------------------------------------- *)
\* a header whose length field declares fewer bytes than a header has, in
\* the framing with a 2-byte and with a 4-byte length
ShortLengths == {0, 4, HEADER_SIZE - 1}
ShortHeaders ==
    {<<0, k, 0, 0, TNS_PACKET_TYPE_DATA, 0, 0, 0>> : k \in ShortLengths}
    \cup {<<0, 0, 0, k, TNS_PACKET_TYPE_DATA, 0, 0, 0>> : k \in ShortLengths}

\* the framer reading a server that sends such a header after at most two
\* well-formed packets
InitShortHeader ==
    /\ InitConn
    /\ RowCursorUnopened
    /\ SideIdle
    /\ phase = "init"
    /\ stream \in {s \in Streams : Len(s) <= 2}
    /\ \E h \in ShortHeaders : tcp = Wire(stream) \o h
    /\ partial_buf = <<>>
    /\ use_large_sdu = FALSE
    /\ negotiated = 0
    /\ emitted = <<>>
    /\ sent = <<>>
    /\ connect_string = Descriptor(1)

SpecShortHeader == InitShortHeader /\ [][NextFramer]_vars

ShortHeaderBuffered ==
    /\ Len(partial_buf) >= HEADER_SIZE
    /\ PacketLen(partial_buf, use_large_sdu) < HEADER_SIZE

\* C35 (as claimed): when a header declares a length smaller than the
\* 8-byte header, read_packet returns an error; it does not crash.
C35_AsClaimed == ShortHeaderBuffered => phase # "panic"

(* ---------------------------------------------------------------------- *)
(* C36                                                                    *)
(* ---------------------------------------------------------------------- *)
\* C36 (as claimed): phase_two returns Ok only after a server response was
\* verified: the phase-two reply carried an AUTH_SVR_RESPONSE that decrypts
\* under the combo key to SERVER_TO_CLIENT; a reply without one is not
\* accepted.
C36_AsClaimed ==
    fa_pc = "connected" =>
        /\ fa_reply2 # <<>>
        /\ \E v \in SvrResponses : Genuine(v)

(* ---------------------------------------------------------------------- *)
(* C38                                                                    *)
(* ---------------------------------------------------------------------- *)
\* C38 (as claimed): at every point of the session the FIELD_VERSION byte
\* of the stored compile-time capabilities equals the negotiated field
\* version, also after fast_auth has lowered the field version.
C38_AsClaimed ==
    fa_pc # "start" => caps.compile_caps.field_version = caps.ttc_field_version

(* ---------------------------------------------------------------------- *)
(* C39                                                                    *)
(* ---------------------------------------------------------------------- *)
\* a server that answers what the client has sent with any packet of the
\* CONNECT exchange, RESEND included, as often as it likes.  The exchange
\* is recorded one round at a time: the server takes the packets sent, and
\* stream and emitted hold the packet of the current round.
ServerAnswers ==
    /\ phase = "connect_read"
    /\ sent # <<>>
    /\ tcp = <<>>
    /\ partial_buf = <<>>
    /\ \E a \in Answers \cup {StreamPkt(TNS_PACKET_TYPE_RESEND, <<>>, FALSE)} :
          /\ stream' = <<a>>
          /\ tcp' = Wire(<<a>>)
    /\ sent' = <<>>
    /\ emitted' = <<>>
    /\ UNCHANGED <<conn, rowc, side, phase, partial_buf, use_large_sdu, negotiated, connect_string>>

InitResend ==
    /\ InitConn
    /\ RowCursorUnopened
    /\ SideIdle
    /\ phase = "init"
    /\ stream = <<>>
    /\ tcp = <<>>
    /\ partial_buf = <<>>
    /\ use_large_sdu = FALSE
    /\ negotiated = 0
    /\ emitted = <<>>
    /\ sent = <<>>
    /\ connect_string \in {Descriptor(1), Descriptor(TNS_MAX_CONNECT_DATA),
                           Descriptor(TNS_MAX_CONNECT_DATA + 1)}

NextResend ==
    \/ Connect
    \/ ServerAnswers
    \/ SocketRead
    \/ ConnectReadPacket

\* the client's steps are taken when they can be; the server is free
SpecResend ==
    /\ InitResend
    /\ [][NextResend]_vars
    /\ WF_vars(Connect)
    /\ WF_vars(SocketRead)
    /\ WF_vars(ConnectReadPacket)

\* C39 (as claimed): the CONNECT handshake terminates, whatever the server
\* keeps sending: after a bounded number of RESEND replies connect returns.
C39_AsClaimed == <>(phase \notin {"init", "connect_read"})

(* ---------------------------------------------------------------------- *)
(* C40                                                                    *)
(* ---------------------------------------------------------------------- *)
\* the buffered rows not yet taken, in the order take_buffered returns them
Untaken(c) == SubSeq(c.buffer, c.buffer_pos + 1, Len(c.buffer))

\* C40: add_rows discards no row that is buffered and not yet taken: after
\* the call the untaken rows are the rows untaken before, in order,
\* followed by the rows added.
C40_AddRowsKeepsUntaken ==
    [][AddRows =>
         Untaken(rowcur') =
             Untaken(rowcur) \o RowsFrom(rowcur.rows_fetched + 1, rowcur'.rows_fetched)]_vars

\* rows were added behind a buffer of which some rows were taken and others
\* were not
C40_Witness ==
    /\ ret = "added"
    /\ rowcur.buffer_pos >= 1
    /\ Len(Untaken(rowcur)) >= 2
    /\ rowcur.rows_fetched > table.n
    /\ rowcur.buffer[rowcur.buffer_pos + 1] = yielded[Len(yielded)] + 1

(* ---------------------------------------------------------------------- *)
(* C37                                                                    *)
(* ---------------------------------------------------------------------- *)
\* the RESET markers the client sent while it read the answer to request req
ResetsSent(req) ==
    {k \in DOMAIN log : IsClientReset(log[k]) /\ log[k].pkt.req = req}

\* C37 (as claimed): in the marker recovery of one request of a statement
\* the client sends exactly one RESET marker, however many MARKER packets
\* the server sends before the DATA packet that carries the error.
C37_AsClaimed ==
    StatementLog =>
        \A i \in DOMAIN log :
            (IsRecv(log[i], TNS_PACKET_TYPE_MARKER)) =>
                Cardinality(ResetsSent(log[i].pkt.req)) = 1

(* ---------------------------------------------------------------------- *)
(* C32                                                                    *)
(* ---------------------------------------------------------------------- *)
\* C32 (as claimed): for every message, field version and field content,
\* wire_size() is the number of bytes write_to() appends to the buffer.
C32_AsClaimed ==
    (cx_pc = "read" /\ cx_in.kind = "ExecuteMessage") => cx_out.size = Len(cx_wire)
====
